---- MODULE Spec2Model ----
(***************************************************************************)
(* A model of the geoprocessor kernel: canonical point identity            *)
(* (primitives.py), the point registry, the segment intersection and the   *)
(* arrangement builder (builder.py) and the face tracer (topology.py).     *)
(*                                                                         *)
(* Numbers.  The program computes in IEEE doubles; the model computes in   *)
(* fixed point.  A coordinate is an integer count of quanta, One quanta    *)
(* being the length 1.0.  The two tunable constants of primitives.py are   *)
(* kept at a reduced resolution that preserves their order of size         *)
(* (quantum < tolerance-sized gaps < half a rounding cell < unit length):  *)
(*   GEOMETRIC_TOLERANCE      is 1 quantum, i.e. 1/One (program: 1e-9)     *)
(*   POINT_PRECISION_DECIMALS is 1, a cell of One/10 (program: 7)          *)
(* A product of two lengths carries the factor One twice, so a tolerance   *)
(* compared with an area is scaled by One once more.  A quotient t = n/d   *)
(* is compared exactly, as the pair (n, d), and is rounded to a multiple   *)
(* of 1/One when it is used as a number, as every product and sum is       *)
(* rounded to a quantum: a computed coordinate may be a quantum off the    *)
(* exact one, as a double may be off by an ulp.                            *)
(***************************************************************************)
EXTENDS Integers, Sequences, FiniteSets, TLC

VARIABLES
    pc,                     \* position of the run
    segs,                   \* raw_input_segments, a sequence of raw segments
    i, j,                   \* loop indices of the phase in progress
    point_cache,            \* the registry: rounded key -> Point
    all_vertices,           \* set of canonical Points
    segment_to_points_map,  \* raw segment -> set of canonical Points
    canonical_segments,     \* sequence of [original, canonical]
    last_hit,               \* result of the intersection test just made
    adj_list,               \* Point -> (neighbour Point -> weight)
    order,                  \* iteration order of the graph dictionary
    perimeters,             \* accepted perimeters, in discovery order
    faces,                  \* the accepted paths, one per perimeter (history)
    visited_directed_edges, \* consumed directed edges
    found_faces,            \* vertex sets of the accepted faces
    last_trace,             \* outcome of the trace just made (history)
    tested,                 \* the pairs (i, j) given to the intersection test (history)
    calls,                  \* get_canonical_point calls made so far (history)
    args,                   \* arguments of a function called on its own
    result                  \* what that call returned

vars == <<pc, segs, i, j, point_cache, all_vertices, segment_to_points_map,
          canonical_segments, last_hit, adj_list, order, perimeters,
          faces, visited_directed_edges, found_faces, last_trace, tested, calls,
          args, result>>

\* ------------------------------------------------------------------------
\* Fixed-point arithmetic
\* ------------------------------------------------------------------------

\* quanta per unit length
One == 120

\* primitives.py: GEOMETRIC_TOLERANCE, in quanta
GEOMETRIC_TOLERANCE == 1

\* primitives.py: POINT_PRECISION_DECIMALS
POINT_PRECISION_DECIMALS == 1

None == [none |-> TRUE]

\* a float division by zero raises
ZeroDivisionError == [raised |-> "ZeroDivisionError"]

Abs(n) == IF n < 0 THEN -n ELSE n

Sign(n) == IF n < 0 THEN -1 ELSE IF n > 0 THEN 1 ELSE 0

RECURSIVE Pow10(_)
Pow10(n) == IF n = 0 THEN 1 ELSE 10 * Pow10(n - 1)

\* n/d rounded to the nearest integer, halves upwards (d # 0)
RoundDiv(n, d) ==
    LET nn == IF d < 0 THEN -n ELSE n
        dd == Abs(d)
    IN  (2 * nn + dd) \div (2 * dd)

\* n/d rounded to the nearest integer, halves to the even neighbour: the
\* rounding of Python's round() (d > 0)
RoundHalfEven(n, d) ==
    LET q == n \div d
        r == n % d
    IN  IF 2 * r < d THEN q
        ELSE IF 2 * r > d THEN q + 1
        ELSE IF q % 2 = 0 THEN q ELSE q + 1

\* the least r with r * r >= n, searched by bisection in lo..hi
RECURSIVE CeilSqrtIn(_, _, _)
CeilSqrtIn(n, lo, hi) ==
    IF lo >= hi THEN lo
    ELSE LET mid == (lo + hi) \div 2
         IN  IF mid * mid >= n THEN CeilSqrtIn(n, lo, mid)
             ELSE CeilSqrtIn(n, mid + 1, hi)

\* a power of two h with h * h >= n
RECURSIVE SqrtUpper(_, _)
SqrtUpper(n, h) == IF h * h >= n THEN h ELSE SqrtUpper(n, 2 * h)

\* math.sqrt on fixed-point numbers, rounded up to the next quantum (so that
\* sqrt(n) > k, for an integer k, is decided as on the reals)
Sqrt(n) == CeilSqrtIn(n, 0, SqrtUpper(n, 1))

\* ------------------------------------------------------------------------
\* primitives.py
\* ------------------------------------------------------------------------

Point(x, y) == [x |-> x, y |-> y]

\* float('nan'): a float that is not a number, written as an integer below
\* every coordinate; float(x) in Point.__init__ takes it as it takes a number
NaN == -(One * One * One)

\* a float operation with one of the operands a and b not a number gives NaN
Float(a, b, value) == IF a = NaN \/ b = NaN THEN NaN ELSE value

\* round(v, POINT_PRECISION_DECIMALS), in units of 10^-POINT_PRECISION_DECIMALS;
\* round(nan, n) is nan
round(v) == IF v = NaN THEN NaN ELSE RoundHalfEven(v * Pow10(POINT_PRECISION_DECIMALS), One)

\* the pair of rounded coordinates that __eq__, __hash__ and the registry use
RoundedKey(x, y) == <<round(x), round(y)>>

\* hash() of a tuple of two rounded coordinates: any function of the tuple,
\* here one with collisions
HashBuckets == 7

TupleHash(k) == (31 * k[1] + k[2]) % HashBuckets

\* __eq__ by closeness instead of by rounded coordinates
PointEqIsClose(p, q) ==
    /\ Abs(p.x - q.x) <= GEOMETRIC_TOLERANCE
    /\ Abs(p.y - q.y) <= GEOMETRIC_TOLERANCE

\* Point.__eq__
PointEq(p, q) == round(p.x) = round(q.x) /\ round(p.y) = round(q.y)

\* Point.__hash__
PointHash(p) == TupleHash(RoundedKey(p.x, p.y))

\* Point.__sub__, __add__
PointSub(p, q) == Point(Float(p.x, q.x, p.x - q.x), Float(p.y, q.y, p.y - q.y))

PointAdd(p, q) == Point(Float(p.x, q.x, p.x + q.x), Float(p.y, q.y, p.y + q.y))

\* Point.__mul__ by the quotient n/d: the product is a coordinate again and
\* is rounded to a quantum
PointMul(v, n, d) == Point(RoundDiv(v.x * n, d), RoundDiv(v.y * n, d))

euclidean_dist(point1, point2) ==
    Sqrt((point2.x - point1.x) * (point2.x - point1.x)
         + (point2.y - point1.y) * (point2.y - point1.y))

\* membership in a Python set (or dict) of Points: decided by __eq__
InPoints(p, S) == \E q \in S : PointEq(q, p)

\* set.add: a point equal to a member is not added again
AddPoint(S, p) == IF InPoints(p, S) THEN S ELSE S \cup {p}

\* ------------------------------------------------------------------------
\* builder.py: the registry
\* ------------------------------------------------------------------------

\* a registry that stores the Point of every call, hit or miss
CacheAfterOverwrite(cache, x, y) == (RoundedKey(x, y) :> Point(x, y)) @@ cache

\* get_canonical_point, the registry after the call get_canonical_point(x, y)
CacheAfter(cache, x, y) ==
    LET cache_key == RoundedKey(x, y)
    IN  IF cache_key \notin DOMAIN cache
        THEN (cache_key :> Point(x, y)) @@ cache
        ELSE cache

\* get_canonical_point, the Point the call get_canonical_point(x, y) returns
get_canonical_point(cache, x, y) == CacheAfter(cache, x, y)[RoundedKey(x, y)]

\* ------------------------------------------------------------------------
\* builder.py: the intersection finder
\* ------------------------------------------------------------------------

calc_signed_parallelogram_area(v1, v2) ==
    IF NaN \in {v1.x, v1.y, v2.x, v2.y} THEN NaN ELSE v1.x * v2.y - v1.y * v2.x

\* a parallel test without the tolerance
IsExactlyZero(den) == den = 0

\* math.isclose(den, 0.0, abs_tol=GEOMETRIC_TOLERANCE); den is a product of
\* two lengths; nan is close to nothing
IsCloseToZero(den) == den # NaN /\ Abs(den) <= GEOMETRIC_TOLERANCE * One

\* a range test without the padding: 0 <= n/d <= 1
InUnit(n, d) ==
    LET nn == IF d < 0 THEN -n ELSE n
    IN  0 <= nn /\ nn <= Abs(d)

\* -GEOMETRIC_TOLERANCE <= n/d <= 1 + GEOMETRIC_TOLERANCE, for the quotient
\* n/d (d # 0); the tolerance is GEOMETRIC_TOLERANCE/One of the unit interval
InPaddedUnit(n, d) ==
    LET nn == IF d < 0 THEN -n ELSE n
        dd == Abs(d)
    IN  /\ n # NaN /\ d # NaN
        /\ -(GEOMETRIC_TOLERANCE * dd) <= One * nn
        /\ One * nn <= (One + GEOMETRIC_TOLERANCE) * dd

\* the quotients t and u of _get_segment_intersection, as numerators over den
IntersectionParams(segment1, segment2) ==
    LET p1 == segment1[1]
        p2 == segment1[2]
        p3 == segment2[1]
        p4 == segment2[2]
        dir1 == PointSub(p2, p1)
        dir2 == PointSub(p4, p3)
        p1_p3 == PointSub(p3, p1)
    IN  [den |-> calc_signed_parallelogram_area(dir1, dir2),
         t |-> calc_signed_parallelogram_area(p1_p3, dir2),
         u |-> calc_signed_parallelogram_area(p1_p3, dir1)]

\* the double n / d, as a number of quanta of 1/One
Quotient(n, d) == RoundDiv(n * One, d)

\* _get_segment_intersection: a Point, or None.  The range tests are far
\* coarser than the rounding of t and u and are decided on the exact
\* quotients; the point is computed as the code computes it, t = n / den
\* first, then dir1 * t, then p1 + that, each step rounded.
get_segment_intersection(segment1, segment2) ==
    LET p1 == segment1[1]
        dir1 == PointSub(segment1[2], p1)
        q == IntersectionParams(segment1, segment2)
    IN  IF IsCloseToZero(q.den) THEN None
        ELSE IF q.den = 0 THEN ZeroDivisionError
        ELSE IF InPaddedUnit(q.t, q.den) /\ InPaddedUnit(q.u, q.den)
             THEN PointAdd(p1, PointMul(dir1, Quotient(q.t, q.den), One))
             ELSE None

\* ------------------------------------------------------------------------
\* builder.py: build_graph
\* ------------------------------------------------------------------------

\* the order (x, y) of tuples
LexLess(p, q) == p.x < q.x \/ (p.x = q.x /\ p.y < q.y)

\* _get_reference_point: the set of Points the call may return (empty for
\* None).  The last resort takes the first element of a list made from a
\* set, any member.
ReferencePoints(raw_seg_tuple, points_on_segment, cache) ==
    LET start_coords == raw_seg_tuple[1]
        rounded_key == RoundedKey(start_coords[1], start_coords[2])
        temp_start_point == Point(start_coords[1], start_coords[2])
        found == {p \in points_on_segment : PointEq(p, temp_start_point)}
    IN  IF DOMAIN cache # {} /\ rounded_key \in DOMAIN cache
        THEN {cache[rounded_key]}
        ELSE IF found # {} THEN found
        ELSE points_on_segment

\* sorted(list(points_on_segment), key=distance from ref_point); points at
\* the same distance stay in the order of the list, taken here by (x, y)
SortsBefore(p, q, ref_point) ==
    \/ euclidean_dist(ref_point, p) < euclidean_dist(ref_point, q)
    \/ /\ euclidean_dist(ref_point, p) = euclidean_dist(ref_point, q)
       /\ (LexLess(p, q) \/ p = q)

RECURSIVE SortedPoints(_, _)
SortedPoints(S, ref_point) ==
    IF S = {} THEN <<>>
    ELSE LET m == CHOOSE p \in S : \A q \in S : SortsBefore(p, q, ref_point)
         IN  <<m>> \o SortedPoints(S \ {m}, ref_point)

\* an edge stored in one direction only
AddEdgeOneWay(adj, u, v, distance) == [adj EXCEPT ![u] = (v :> distance) @@ @]

\* adj_list[u][v] = distance; adj_list[v][u] = distance
AddEdge(adj, u, v, distance) ==
    [adj EXCEPT ![u] = (v :> distance) @@ @, ![v] = (u :> distance) @@ @]

\* an edge test that only rejects the distance zero
IsPositiveLength(distance) == distance > 0

\* the edge test of build_graph
IsEdgeLength(distance) == distance > GEOMETRIC_TOLERANCE

\* a loop that links every point to the first one instead of to its predecessor
RECURSIVE LinkToFirst(_, _, _)
LinkToFirst(adj, sorted_points, k) ==
    IF k >= Len(sorted_points) THEN adj
    ELSE LET u == sorted_points[1]
             v == sorted_points[k + 1]
             distance == euclidean_dist(u, v)
         IN  LinkToFirst(
                 IF distance > GEOMETRIC_TOLERANCE
                 THEN [adj EXCEPT ![u] = (v :> distance) @@ @, ![v] = (u :> distance) @@ @]
                 ELSE adj,
                 sorted_points, k + 1)

\* the loop over consecutive points of sorted_points, from index k on
RECURSIVE LinkConsecutive(_, _, _)
LinkConsecutive(adj, sorted_points, k) ==
    IF k >= Len(sorted_points) THEN adj
    ELSE LET u == sorted_points[k]
             v == sorted_points[k + 1]
             distance == euclidean_dist(u, v)
         IN  LinkConsecutive(
                 IF IsEdgeLength(distance) THEN AddEdge(adj, u, v, distance)
                 ELSE adj,
                 sorted_points, k + 1)

\* the keys of segment_to_points_map in insertion order: the raw segments in
\* the order of their first occurrence in the input
RECURSIVE MapKeys(_)
MapKeys(s) ==
    IF s = <<>> THEN <<>>
    ELSE LET front == MapKeys(SubSeq(s, 1, Len(s) - 1))
             last == s[Len(s)]
         IN  IF \E k \in 1..Len(front) : front[k] = last THEN front
             ELSE Append(front, last)

\* ------------------------------------------------------------------------
\* topology.py
\* ------------------------------------------------------------------------

\* the vector from p_from to p_to of _calculate_vector_angle: the differences
\* p_to.x - p_from.x and p_to.y - p_from.y of the coordinates of two vertices
VectorFromTo(p_from, p_to) == Point(p_to.x - p_from.x, p_to.y - p_from.y)

\* the cross product of two such vectors: its sign is the side of v1 on which
\* v2 lies
TurnCross(v1, v2) == v1.x * v2.y - v1.y * v2.x

\* The turn angle (outgoing - incoming) mod 2*pi of _trace_one_face is the
\* counter-clockwise angle from the vector `back` (current to previous) to
\* the vector `out` (current to candidate), in [0, 2*pi).  Angles are
\* compared exactly, through the quadrant of `out` relative to `back`:
\* 0 for angle 0, 1 for (0, pi), 2 for pi, 3 for (pi, 2*pi).
TurnSector(back, out) ==
    LET c == TurnCross(back, out)
        d == back.x * out.x + back.y * out.y
    IN  IF c = 0 THEN (IF d > 0 THEN 0 ELSE 2)
        ELSE IF c > 0 THEN 1 ELSE 3

\* turn angle of a < turn angle of b
TurnLess(back, a, b) ==
    LET sector_a == TurnSector(back, a)
        sector_b == TurnSector(back, b)
    IN  \/ sector_a < sector_b
        \/ /\ sector_a = sector_b
           /\ sector_a \in {1, 3}
           /\ TurnCross(a, b) > 0

\* candidates that never include the previous node
CandidatesNeverBack(graph, prev_node, current_node) ==
    {c \in DOMAIN graph[current_node] : ~PointEq(c, prev_node)}

\* the candidates of one step: every neighbour, the previous node only when
\* it is the only neighbour
Candidates(graph, prev_node, current_node) ==
    LET neighbors == DOMAIN graph[current_node]
    IN  {c \in neighbors : ~(PointEq(c, prev_node) /\ Cardinality(neighbors) > 1)}

\* a walk that keeps the candidate of greatest turn angle
BestNextNodeWidest(graph, prev_node, current_node) ==
    LET back == VectorFromTo(current_node, prev_node)
        out(c) == VectorFromTo(current_node, c)
        cands == Candidates(graph, prev_node, current_node)
    IN  CHOOSE c \in cands : \A d \in cands :
            /\ ~TurnLess(back, out(c), out(d))
            /\ (~TurnLess(back, out(d), out(c)) => (LexLess(c, d) \/ c = d))

\* the candidate the loop over sorted(neighbors) keeps: the first in (x, y)
\* order among those of least turn angle
BestNextNode(graph, prev_node, current_node) ==
    LET back == VectorFromTo(current_node, prev_node)
        out(c) == VectorFromTo(current_node, c)
        cands == Candidates(graph, prev_node, current_node)
    IN  CHOOSE c \in cands : \A d \in cands :
            /\ ~TurnLess(back, out(d), out(c))
            /\ (~TurnLess(back, out(c), out(d)) => (LexLess(c, d) \/ c = d))

\* a loop that adds the weight of an edge only after the test for the start
\* node, so that the closing edge is never added
RECURSIVE TraceLoopLate(_, _, _, _, _, _, _)
TraceLoopLate(graph, start_node, prev_node, current_node, path_nodes, path_perimeter, left) ==
    IF left = 0
    THEN [outcome |-> "too_long", path |-> path_nodes, perimeter |-> path_perimeter]
    ELSE LET path2 == Append(path_nodes, current_node)
             perimeter2 == path_perimeter + graph[prev_node][current_node]
         IN  IF PointEq(current_node, start_node)
             THEN [outcome |-> "closed", path |-> path2, perimeter |-> path_perimeter]
             ELSE IF Candidates(graph, prev_node, current_node) = {}
             THEN [outcome |-> "dead_end", path |-> path2, perimeter |-> perimeter2]
             ELSE TraceLoopLate(graph, start_node, current_node,
                                BestNextNode(graph, prev_node, current_node),
                                path2, perimeter2, left - 1)

\* the loop of _trace_one_face with `left` iterations to go
RECURSIVE TraceLoop(_, _, _, _, _, _, _)
TraceLoop(graph, start_node, prev_node, current_node, path_nodes, path_perimeter, left) ==
    IF left = 0
    THEN [outcome |-> "too_long", path |-> path_nodes, perimeter |-> path_perimeter]
    ELSE LET path2 == Append(path_nodes, current_node)
             perimeter2 == path_perimeter + graph[prev_node][current_node]
         IN  IF PointEq(current_node, start_node)
             THEN [outcome |-> "closed", path |-> path2, perimeter |-> perimeter2]
             ELSE IF Candidates(graph, prev_node, current_node) = {}
             THEN [outcome |-> "dead_end", path |-> path2, perimeter |-> perimeter2]
             ELSE TraceLoop(graph, start_node, current_node,
                            BestNextNode(graph, prev_node, current_node),
                            path2, perimeter2, left - 1)

\* a trace whose loop runs two times fewer
TraceTwoShort(start_node, first_neighbor, graph) ==
    TraceLoop(graph, start_node, start_node, first_neighbor, <<start_node>>, 0,
              Cardinality(DOMAIN graph) - 1)

\* a trace whose loop runs twice as often
TraceTwiceAsLong(start_node, first_neighbor, graph) ==
    TraceLoop(graph, start_node, start_node, first_neighbor, <<start_node>>, 0,
              2 * (Cardinality(DOMAIN graph) + 1))

\* _trace_one_face: outcome "closed" is the return of (path_nodes,
\* path_perimeter), the other two the return of (None, 0); their path and
\* perimeter are what the trace held when it gave up
trace_one_face(start_node, first_neighbor, graph) ==
    TraceLoop(graph, start_node, start_node, first_neighbor, <<start_node>>, 0,
              Cardinality(DOMAIN graph) + 1)

\* the sum of _shoelace_area, before the division by 2.0: twice the area
RECURSIVE ShoelaceSum(_, _)
ShoelaceSum(vs, k) ==
    IF k > Len(vs) THEN 0
    ELSE LET p1 == vs[k]
             p2 == vs[(k % Len(vs)) + 1]
         IN  (p1.x * p2.y - p2.x * p1.y) + ShoelaceSum(vs, k + 1)

\* _shoelace_area, in half square quanta
shoelace_area(vertices_ordered) ==
    IF Len(vertices_ordered) < 3 THEN 0 ELSE ShoelaceSum(vertices_ordered, 1)

\* an orientation test that only rejects flat polygons
IsNotFlat(vertices_ordered) ==
    Abs(shoelace_area(vertices_ordered)) > 2 * GEOMETRIC_TOLERANCE * One

\* an orientation test with the sign the wrong way round
IsCounterClockwise(vertices_ordered) ==
    shoelace_area(vertices_ordered) > 2 * GEOMETRIC_TOLERANCE * One

\* signed_area < -GEOMETRIC_TOLERANCE, the area being a product of two lengths
IsClockwise(vertices_ordered) ==
    shoelace_area(vertices_ordered) < -(2 * GEOMETRIC_TOLERANCE * One)

\* sorted(S, key=lambda p: (p.x, p.y))
RECURSIVE SortedByXY(_)
SortedByXY(S) ==
    IF S = {} THEN <<>>
    ELSE LET m == CHOOSE p \in S : \A q \in S : LexLess(p, q) \/ p = q
         IN  <<m>> \o SortedByXY(S \ {m})

Reverse(s) == [k \in 1..Len(s) |-> s[Len(s) + 1 - k]]

SeqToSet(s) == {s[k] : k \in 1..Len(s)}

\* frozenset(unique_ordered_nodes): a set of Points under __eq__
RECURSIVE PointSetOf(_, _)
PointSetOf(s, k) ==
    IF k = 0 THEN {} ELSE AddPoint(PointSetOf(s, k - 1), s[k])

\* the edges along a path, each in both directions
PathEdgesBothWays(path) ==
    UNION {{<<path[k], path[k + 1]>>, <<path[k + 1], path[k]>>} : k \in 1..(Len(path) - 1)}

\* the directed edges along a path
PathEdges(path) == {<<path[k], path[k + 1]>> : k \in 1..(Len(path) - 1)}

\* an iteration that forgets the edges visited and the faces found so far
JudgeNoMemory(start_node, first_neighbor, graph, visited, found) ==
    LET tr == trace_one_face(start_node, first_neighbor, graph)
        unique_ordered_nodes == SubSeq(tr.path, 1, Len(tr.path) - 1)
        canonical_face == PointSetOf(unique_ordered_nodes, Len(unique_ordered_nodes))
        is_simple_polygon ==
            /\ Cardinality(canonical_face) >= 3
            /\ Cardinality(canonical_face) = Len(unique_ordered_nodes)
        verdict ==
            IF tr.outcome # "closed" THEN "failed"
            ELSE IF ~is_simple_polygon THEN "not_simple"
            ELSE IF ~IsClockwise(unique_ordered_nodes) THEN "not_clockwise"
            ELSE "accepted"
    IN  [verdict |-> verdict, path |-> tr.path, perimeter |-> tr.perimeter,
         outcome |-> tr.outcome]

\* one iteration of the inner loop of find_face_perimeters, on the start edge
\* (start_node, first_neighbor): what it decides
Judge(start_node, first_neighbor, graph, visited, found) ==
    IF <<start_node, first_neighbor>> \in visited
    THEN [verdict |-> "skipped", path |-> <<>>, perimeter |-> 0, outcome |-> "none"]
    ELSE LET tr == trace_one_face(start_node, first_neighbor, graph)
             unique_ordered_nodes == SubSeq(tr.path, 1, Len(tr.path) - 1)
             canonical_face == PointSetOf(unique_ordered_nodes, Len(unique_ordered_nodes))
             is_simple_polygon ==
                 /\ Cardinality(canonical_face) >= 3
                 /\ Cardinality(canonical_face) = Len(unique_ordered_nodes)
             verdict ==
                 IF tr.outcome # "closed" THEN "failed"
                 ELSE IF ~is_simple_polygon THEN "not_simple"
                 ELSE IF canonical_face \in found THEN "duplicate"
                 ELSE IF ~IsClockwise(unique_ordered_nodes) THEN "not_clockwise"
                 ELSE "accepted"
         IN  [verdict |-> verdict, path |-> tr.path, perimeter |-> tr.perimeter,
              outcome |-> tr.outcome]

\* the start edges of find_face_perimeters in the order in which they are
\* tried: for start_node in graph, for first_neighbor in sorted(neighbours),
\* from the k-th start node on
RECURSIVE StartEdgesFrom(_, _, _)
StartEdgesFrom(graph, node_order, k) ==
    IF k > Len(node_order) THEN <<>>
    ELSE LET sorted_neighbors == SortedByXY(DOMAIN graph[node_order[k]])
         IN  [m \in 1..Len(sorted_neighbors) |-> <<node_order[k], sorted_neighbors[m]>>]
                 \o StartEdgesFrom(graph, node_order, k + 1)

\* loops that mark the edges of every closed trace as visited, accepted or not
RECURSIVE TraceAllMarkingClosed(_, _, _, _)
TraceAllMarkingClosed(graph, edges, k, acc) ==
    IF k > Len(edges) THEN acc
    ELSE LET r == Judge(edges[k][1], edges[k][2], graph, acc.visited, acc.found)
             unique_ordered_nodes == SubSeq(r.path, 1, Len(r.path) - 1)
         IN  TraceAllMarkingClosed(graph, edges, k + 1,
                 IF r.verdict = "accepted"
                 THEN [perimeters |-> Append(acc.perimeters, r.perimeter),
                       faces |-> Append(acc.faces, r.path),
                       visited |-> acc.visited \cup PathEdges(r.path),
                       found |-> acc.found \cup
                           {PointSetOf(unique_ordered_nodes, Len(unique_ordered_nodes))}]
                 ELSE IF r.outcome = "closed"
                 THEN [acc EXCEPT !.visited = @ \cup PathEdges(r.path)]
                 ELSE acc)

\* the two loops of find_face_perimeters from the k-th start edge on, acc
\* being the perimeters, faces, visited edges and found faces so far
RECURSIVE TraceAllFrom(_, _, _, _)
TraceAllFrom(graph, edges, k, acc) ==
    IF k > Len(edges) THEN acc
    ELSE LET r == Judge(edges[k][1], edges[k][2], graph, acc.visited, acc.found)
             unique_ordered_nodes == SubSeq(r.path, 1, Len(r.path) - 1)
         IN  TraceAllFrom(graph, edges, k + 1,
                 IF r.verdict = "accepted"
                 THEN [perimeters |-> Append(acc.perimeters, r.perimeter),
                       faces |-> Append(acc.faces, r.path),
                       visited |-> acc.visited \cup PathEdges(r.path),
                       found |-> acc.found \cup
                           {PointSetOf(unique_ordered_nodes, Len(unique_ordered_nodes))}]
                 ELSE acc)

\* find_face_perimeters on a graph whose dictionary iterates in node_order:
\* the perimeters, with the faces, visited edges and found faces behind them
find_face_perimeters(graph, node_order) ==
    TraceAllFrom(graph, StartEdgesFrom(graph, node_order, 1), 1,
                 [perimeters |-> <<>>, faces |-> <<>>, visited |-> {}, found |-> {}])

\* the iteration orders the graph dictionary may have: it is filled from a
\* set of Points, whose order the language leaves open
GraphOrders(V) == {SortedByXY(V), Reverse(SortedByXY(V))}

\* ------------------------------------------------------------------------
\* Inputs
\* ------------------------------------------------------------------------

\* a raw segment: a pair of coordinate pairs
Raw(x1, y1, x2, y2) == <<<<x1, y1>>, <<x2, y2>>>>

\* a raw segment on the lattice of unit spacing
Lat(a, b, c, d) == Raw(a * One, b * One, c * One, d * One)

\* a raw segment on the lattice of half-unit spacing
Half(a, b, c, d) == Raw(a * (One \div 2), b * (One \div 2), c * (One \div 2), d * (One \div 2))

\* the segments small inputs are drawn from: the sides, midlines and
\* diagonals of a 2 x 2 square, overlapping, reversed, degenerate and skew
\* segments, and segments a few quanta off the lattice
Pool ==
    << Lat(0, 0, 2, 0), Lat(2, 0, 2, 2), Lat(2, 2, 0, 2), Lat(0, 2, 0, 0),
       Lat(1, 0, 1, 2), Lat(0, 1, 2, 1), Lat(0, 0, 2, 2), Lat(0, 2, 2, 0),
       Lat(0, 0, 1, 0), Lat(2, 0, 0, 0), Lat(1, 1, 1, 1), Lat(0, 0, 1, 2),
       Lat(0, 1, 1, 0), Lat(1, 0, 1, 1),
       Raw(6, 0, 7, 0), Raw(1, 0, 0, 2 * One), Raw(2 * One + 1, 0, 2 * One + 1, 2 * One) >>

Square == << Lat(1, 1, 1, 2), Lat(1, 2, 2, 2), Lat(2, 2, 2, 1), Lat(2, 1, 1, 1) >>

Hourglass == << Lat(1, 1, 1, 2), Lat(1, 2, 2, 1), Lat(2, 1, 2, 2), Lat(2, 2, 1, 1) >>

Window == << Lat(0, 0, 0, 2), Lat(0, 2, 2, 2), Lat(2, 2, 2, 0), Lat(2, 0, 0, 0),
             Lat(1, 0, 1, 2), Lat(0, 1, 2, 1) >>

Asterisk == Window \o << Lat(0, 0, 2, 2), Lat(0, 2, 2, 0) >>

SquareWithHole ==
    << Lat(0, 0, 0, 2), Lat(0, 2, 2, 2), Lat(2, 2, 2, 0), Lat(2, 0, 0, 0),
       Half(1, 1, 1, 3), Half(1, 3, 3, 3), Half(3, 3, 3, 1), Half(3, 1, 1, 1) >>

\* a square round a triangle that touches it nowhere, off its centre
SquareWithIsland ==
    << Lat(0, 0, 0, 2), Lat(0, 2, 2, 2), Lat(2, 2, 2, 0), Lat(2, 0, 0, 0),
       Half(1, 1, 3, 1), Half(3, 1, 1, 2), Half(1, 2, 1, 1) >>

\* two crossing segments and, registered between them, a segment at their
\* crossing whose ends differ by less than the rounding tells apart
DotOnCrossing ==
    << Lat(0, 1, 2, 1), Raw(One + 2, One + 3, One, One), Lat(1, 0, 1, 2) >>

\* a segment with such a dot on it and nothing else
DotOnSegment == << Raw(One + 2, One + 3, One, One), Lat(0, 1, 2, 1) >>

AntennaOutside == Square \o << Lat(2, 1, 3, 1) >>

AntennaInside ==
    << Lat(0, 0, 0, 2), Lat(0, 2, 2, 2), Lat(2, 2, 2, 0), Lat(2, 0, 0, 0), Lat(0, 0, 1, 1) >>

TwoAntennasInside == AntennaInside \o << Half(4, 4, 3, 3) >>

\* a triangle two of whose sides carry a collinear, overlapping stub
OverlapStubs ==
    << Lat(0, 0, 0, 1), Lat(0, 0, 0, 2), Lat(0, 0, 2, 0), Lat(0, 2, 1, 1), Lat(0, 2, 2, 0) >>

\* a segment crossed by two others: four points on it
Comb == << Lat(0, 1, 3, 1), Lat(1, 0, 1, 2), Lat(2, 0, 2, 2) >>

\* a triangle whose area is below the tolerance
TinyTriangle == << Raw(0, 0, 12, 0), Raw(12, 0, 0, 12), Raw(0, 12, 0, 0) >>

\* a segment met by another a little before its start, within the padding
\* of the intersection test, at a point with a rounded key of its own: two
\* quanta before the start, and one quantum before it
BehindStart == << Raw(8, One, 2 * One + 8, One), Raw(6, 0, 6, 2 * One) >>

BehindStartClose == << Raw(7, One, One + 7, One), Raw(6, 0, 6, 2 * One) >>

Scenarios ==
    { Square, Hourglass, Window, Asterisk, SquareWithHole, AntennaOutside,
      AntennaInside, TwoAntennasInside, OverlapStubs, Comb, TinyTriangle,
      BehindStart, BehindStartClose, SquareWithIsland, DotOnCrossing, DotOnSegment }

\* the largest number of Pool segments in a small input
MaxSegs == 3

\* the sets of at most k indices of Pool
RECURSIVE IndexSets(_)
IndexSets(k) ==
    IF k = 0 THEN {{}}
    ELSE LET smaller == IndexSets(k - 1)
         IN  smaller \cup {S \cup {x} : S \in smaller, x \in 1..Len(Pool)}

\* the Pool segments of an index set, in Pool order
RECURSIVE Pick(_, _)
Pick(S, k) ==
    IF k > Len(Pool) THEN <<>>
    ELSE (IF k \in S THEN <<Pool[k]>> ELSE <<>>) \o Pick(S, k + 1)

Inputs == Scenarios \cup {Pick(S, 1) : S \in IndexSets(MaxSegs)}

\* ------------------------------------------------------------------------
\* The run: find_all_vertices_and_segment_map, build_graph,
\* find_face_perimeters
\* ------------------------------------------------------------------------

\* an intersection point recorded on the first segment of the pair only
AddToFirst(map, a, b, ip) == [map EXCEPT ![a] = AddPoint(@, ip)]

\* segment_to_points_map[seg_a_data['original']].add(ip), and the same for seg_b
AddToBoth(map, a, b, ip) ==
    [map EXCEPT ![a] = AddPoint(@, ip), ![b] = AddPoint(@, ip)]

NoTrace == [verdict |-> "none", path |-> <<>>, perimeter |-> 0, outcome |-> "none",
            start_edge |-> <<>>]

EmptyMap == [k \in {} |-> {}]

Init ==
    /\ segs \in Inputs
    /\ pc = "endpoints"
    /\ i = 1
    /\ j = 1
    /\ point_cache = EmptyMap
    /\ all_vertices = {}
    /\ segment_to_points_map = EmptyMap
    /\ canonical_segments = <<>>
    /\ last_hit = None
    /\ adj_list = EmptyMap
    /\ order = <<>>
    /\ perimeters = <<>>
    /\ faces = <<>>
    /\ visited_directed_edges = {}
    /\ found_faces = {}
    /\ last_trace = NoTrace
    /\ tested = <<>>
    /\ calls = <<>>
    /\ args = <<>>
    /\ result = None

\* the variables of the calls made on their own: the run leaves them alone
unit_vars == <<calls, args, result>>

tracer_vars == <<order, perimeters, faces, visited_directed_edges, found_faces, last_trace>>

\* Phase 1, one raw segment: register the endpoints
ProcessEndpoints ==
    /\ pc = "endpoints"
    /\ i <= Len(segs)
    /\ Len(segs[i]) = 2
    /\ LET raw_segment == segs[i]
           p1_coords == raw_segment[1]
           p2_coords == raw_segment[2]
           p1 == get_canonical_point(point_cache, p1_coords[1], p1_coords[2])
           cache1 == CacheAfter(point_cache, p1_coords[1], p1_coords[2])
           p2 == get_canonical_point(cache1, p2_coords[1], p2_coords[2])
           cache2 == CacheAfter(cache1, p2_coords[1], p2_coords[2])
       IN  /\ point_cache' = cache2
           /\ all_vertices' = AddPoint(AddPoint(all_vertices, p1), p2)
           /\ segment_to_points_map' =
                  (raw_segment :> AddPoint({p1}, p2)) @@ segment_to_points_map
           /\ canonical_segments' =
                  IF ~PointEq(p1, p2)
                  THEN Append(canonical_segments,
                              [original |-> raw_segment, canonical |-> <<p1, p2>>])
                  ELSE canonical_segments
    /\ i' = i + 1
    /\ UNCHANGED <<pc, segs, j, last_hit, adj_list, tested, unit_vars>>
    /\ UNCHANGED tracer_vars

\* Phase 1 is over: the pair loop starts
StartPairs ==
    /\ pc = "endpoints"
    /\ i > Len(segs)
    /\ pc' = "pairs"
    /\ i' = 1
    /\ j' = 2
    /\ UNCHANGED <<segs, point_cache, all_vertices, segment_to_points_map,
                   canonical_segments, last_hit, adj_list, tested, unit_vars>>
    /\ UNCHANGED tracer_vars

\* Phase 2, one pair (i, j) of canonical segments
TestPair ==
    /\ pc = "pairs"
    /\ j <= Len(canonical_segments)
    /\ LET seg_a_data == canonical_segments[i]
           seg_b_data == canonical_segments[j]
           intersection == get_segment_intersection(seg_a_data.canonical,
                                                    seg_b_data.canonical)
       IN  /\ last_hit' = intersection
           /\ tested' = Append(tested, <<i, j>>)
           /\ IF intersection # None
              THEN LET ip == get_canonical_point(point_cache, intersection.x, intersection.y)
                   IN  /\ point_cache' = CacheAfter(point_cache, intersection.x, intersection.y)
                       /\ all_vertices' = AddPoint(all_vertices, ip)
                       /\ segment_to_points_map' =
                              AddToBoth(segment_to_points_map, seg_a_data.original,
                                        seg_b_data.original, ip)
              ELSE UNCHANGED <<point_cache, all_vertices, segment_to_points_map>>
    /\ IF j < Len(canonical_segments)
       THEN i' = i /\ j' = j + 1
       ELSE i' = i + 1 /\ j' = i + 2
    /\ UNCHANGED <<pc, segs, canonical_segments, adj_list, unit_vars>>
    /\ UNCHANGED tracer_vars

\* find_all_vertices_and_segment_map returns; build_graph starts with one
\* empty adjacency entry per vertex
StartBuild ==
    /\ pc = "pairs"
    /\ j > Len(canonical_segments)
    /\ pc' = "build"
    /\ i' = 1
    /\ j' = 1
    /\ adj_list' = [vertex \in all_vertices |-> EmptyMap]
    /\ order' \in GraphOrders(all_vertices)
    /\ UNCHANGED <<segs, point_cache, all_vertices, segment_to_points_map,
                   canonical_segments, last_hit, tested, unit_vars>>
    /\ UNCHANGED <<perimeters, faces, visited_directed_edges, found_faces, last_trace>>

\* build_graph, one entry of segment_to_points_map
BuildSegment ==
    /\ pc = "build"
    /\ i <= Len(MapKeys(segs))
    /\ LET raw_seg_tuple == MapKeys(segs)[i]
           points_on_segment == segment_to_points_map[raw_seg_tuple]
       IN  IF Cardinality(points_on_segment) < 2
           THEN adj_list' = adj_list
           ELSE \E ref_point \in ReferencePoints(raw_seg_tuple, points_on_segment, point_cache) :
                    adj_list' = LinkConsecutive(adj_list,
                                                SortedPoints(points_on_segment, ref_point), 1)
    /\ i' = i + 1
    /\ UNCHANGED <<pc, segs, j, point_cache, all_vertices, segment_to_points_map,
                   canonical_segments, last_hit, tested, unit_vars>>
    /\ UNCHANGED tracer_vars

\* build_graph returns; find_face_perimeters starts
StartTrace ==
    /\ pc = "build"
    /\ i > Len(MapKeys(segs))
    /\ pc' = "trace"
    /\ i' = 1
    /\ j' = 1
    /\ UNCHANGED <<segs, point_cache, all_vertices, segment_to_points_map,
                   canonical_segments, last_hit, adj_list, tested, unit_vars>>
    /\ UNCHANGED tracer_vars

\* find_face_perimeters, one start edge (order[i], its j-th neighbour)
TryStartEdge ==
    /\ pc = "trace"
    /\ i <= Len(order)
    /\ j <= Cardinality(DOMAIN adj_list[order[i]])
    /\ LET start_node == order[i]
           first_neighbor == SortedByXY(DOMAIN adj_list[start_node])[j]
           r == Judge(start_node, first_neighbor, adj_list,
                      visited_directed_edges, found_faces)
           unique_ordered_nodes == SubSeq(r.path, 1, Len(r.path) - 1)
       IN  /\ last_trace' = [verdict |-> r.verdict, path |-> r.path,
                             perimeter |-> r.perimeter, outcome |-> r.outcome,
                             start_edge |-> <<start_node, first_neighbor>>]
           /\ IF r.verdict = "accepted"
              THEN /\ perimeters' = Append(perimeters, r.perimeter)
                   /\ faces' = Append(faces, r.path)
                   /\ found_faces' = found_faces \cup
                          {PointSetOf(unique_ordered_nodes, Len(unique_ordered_nodes))}
                   /\ visited_directed_edges' = visited_directed_edges \cup PathEdges(r.path)
              ELSE UNCHANGED <<perimeters, faces, found_faces, visited_directed_edges>>
    /\ j' = j + 1
    /\ UNCHANGED <<pc, segs, i, point_cache, all_vertices, segment_to_points_map,
                   canonical_segments, last_hit, adj_list, order, tested, unit_vars>>

\* the neighbours of order[i] are exhausted: the next start node
NextStartNode ==
    /\ pc = "trace"
    /\ i <= Len(order)
    /\ j > Cardinality(DOMAIN adj_list[order[i]])
    /\ i' = i + 1
    /\ j' = 1
    /\ UNCHANGED <<pc, segs, point_cache, all_vertices, segment_to_points_map,
                   canonical_segments, last_hit, adj_list, tested, unit_vars>>
    /\ UNCHANGED tracer_vars

\* find_face_perimeters returns the perimeters
Return ==
    /\ pc = "trace"
    /\ i > Len(order)
    /\ pc' = "done"
    /\ UNCHANGED <<segs, i, j, point_cache, all_vertices, segment_to_points_map,
                   canonical_segments, last_hit, adj_list, tested, unit_vars>>
    /\ UNCHANGED tracer_vars

Next ==
    \/ ProcessEndpoints
    \/ StartPairs
    \/ TestPair
    \/ StartBuild
    \/ BuildSegment
    \/ StartTrace
    \/ TryStartEdge
    \/ NextStartNode
    \/ Return

Spec == Init /\ [][Next]_vars

\* ------------------------------------------------------------------------
\* Calls made on their own: the intersection finder, the comparison of two
\* Points, the registry
\* ------------------------------------------------------------------------

\* the variables of the run, which these calls leave alone
run_vars == <<segs, i, j, all_vertices, segment_to_points_map, canonical_segments,
              last_hit, adj_list, tested>>

\* the run has not started and has no input
NoRun ==
    /\ segs = <<>>
    /\ i = 1
    /\ j = 1
    /\ all_vertices = {}
    /\ segment_to_points_map = EmptyMap
    /\ canonical_segments = <<>>
    /\ last_hit = None
    /\ adj_list = EmptyMap
    /\ order = <<>>
    /\ perimeters = <<>>
    /\ faces = <<>>
    /\ visited_directed_edges = {}
    /\ found_faces = {}
    /\ last_trace = NoTrace
    /\ tested = <<>>

\* the end points of the segments given to the intersection finder: lattice
\* points, points one quantum off them, and points a rounding cell up
IntersectPoints ==
    {Point(x, y) : x \in {0, 1, One, 2 * One}, y \in {0, 1, One \div 10, One}}

InitIntersect ==
    /\ NoRun
    /\ pc = "call"
    /\ point_cache = EmptyMap
    /\ calls = <<>>
    /\ args \in {<<<<p1, p2>>, <<p3, p4>>>> : p1 \in IntersectPoints, p2 \in IntersectPoints,
                                           p3 \in IntersectPoints, p4 \in IntersectPoints}
    /\ result = None

\* _get_segment_intersection(segment1, segment2)
CallIntersect ==
    /\ pc = "call"
    /\ pc' = "returned"
    /\ result' = get_segment_intersection(args[1], args[2])
    /\ UNCHANGED <<args, calls, point_cache>>
    /\ UNCHANGED run_vars
    /\ UNCHANGED tracer_vars

SpecIntersect == InitIntersect /\ [][CallIntersect]_vars

\* the largest coordinate of the Points compared, in quanta: a cell and a
\* half, with the boundaries at 6 and 18
MaxCompareX == 19

ComparePoints == {Point(x, y) : x \in 0..MaxCompareX, y \in {0, 6, 7}}

InitCompare ==
    /\ NoRun
    /\ pc = "call"
    /\ point_cache = EmptyMap
    /\ calls = <<>>
    /\ args \in ComparePoints \X ComparePoints
    /\ result = None

\* p == q, hash(p), hash(q)
CallCompare ==
    /\ pc = "call"
    /\ pc' = "returned"
    /\ result' = [eq |-> PointEq(args[1], args[2]),
                  hash1 |-> PointHash(args[1]),
                  hash2 |-> PointHash(args[2])]
    /\ UNCHANGED <<args, calls, point_cache>>
    /\ UNCHANGED run_vars
    /\ UNCHANGED tracer_vars

SpecCompare == InitCompare /\ [][CallCompare]_vars

\* the largest number of calls of get_canonical_point on one registry
MaxCalls == 3

\* the coordinates the registry is called with: two of them share a rounded
\* value without being equal, two are a quantum apart across a boundary
RegistryXs == {0, 5, 6, 7, 12}

RegistryYs == {0, 7}

InitRegistry ==
    /\ NoRun
    /\ pc = "registry"
    /\ point_cache = EmptyMap
    /\ calls = <<>>
    /\ args = <<>>
    /\ result = None

\* get_canonical_point(x, y) on the registry of _create_point_cache_and_factory
CallGetCanonicalPoint ==
    /\ pc = "registry"
    /\ Len(calls) < MaxCalls
    /\ \E x \in RegistryXs, y \in RegistryYs :
           /\ point_cache' = CacheAfter(point_cache, x, y)
           /\ calls' = Append(calls, [x |-> x, y |-> y,
                                      returned |-> get_canonical_point(point_cache, x, y)])
    /\ UNCHANGED <<pc, args, result>>
    /\ UNCHANGED run_vars
    /\ UNCHANGED tracer_vars

SpecRegistry == InitRegistry /\ [][CallGetCanonicalPoint]_vars

\* ------------------------------------------------------------------------
\* Calls of find_all_vertices_and_segment_map one after another
\* ------------------------------------------------------------------------

\* a registry shared by all calls: the one of the call before, as it is
ProcessGlobalRegistry(id, cache) == [id |-> id, cache |-> cache]

\* _create_point_cache_and_factory(), called where the registry of the call
\* before is the object id with the entries cache: a new dictionary, an
\* object of its own, empty
create_point_cache_and_factory(id, cache) == [id |-> id + 1, cache |-> EmptyMap]

\* the largest number of calls in a row
MaxBatches == 3

\* two crossing segments
CrossBatch == << Lat(0, 1, 2, 1), Lat(1, 0, 1, 2) >>

\* two crossing segments whose ends and crossing have the rounded keys of
\* those of CrossBatch and, but for one end, other coordinates
SkewCrossBatch ==
    << Raw(2, One + 1, 2 * One, One), Raw(One + 2, 3, One + 1, 2 * One + 2) >>

\* the batches the calls are made with
Batches == {CrossBatch, SkewCrossBatch, DotOnCrossing}

\* the first call starts; no call has returned. calls holds what the calls
\* returned, result the identity of the registry of the call under way, whose
\* entries are point_cache, and args the entries of the registries that no
\* call works on any more
InitBatches ==
    /\ segs \in Batches
    /\ pc = "endpoints"
    /\ i = 1
    /\ j = 1
    /\ point_cache = EmptyMap
    /\ all_vertices = {}
    /\ segment_to_points_map = EmptyMap
    /\ canonical_segments = <<>>
    /\ last_hit = None
    /\ adj_list = EmptyMap
    /\ order = <<>>
    /\ perimeters = <<>>
    /\ faces = <<>>
    /\ visited_directed_edges = {}
    /\ found_faces = {}
    /\ last_trace = NoTrace
    /\ tested = <<>>
    /\ calls = <<>>
    /\ args = EmptyMap
    /\ result = 1

\* find_all_vertices_and_segment_map returns its map, its vertex set and its
\* registry, the registry as the object it is
ReturnVertices ==
    /\ pc = "pairs"
    /\ j > Len(canonical_segments)
    /\ pc' = "returned"
    /\ calls' = Append(calls, [batch |-> segs,
                               segment_to_points_map |-> segment_to_points_map,
                               all_vertices |-> all_vertices,
                               point_cache |-> result])
    /\ UNCHANGED <<segs, i, j, point_cache, all_vertices, segment_to_points_map,
                   canonical_segments, last_hit, adj_list, tested, args, result>>
    /\ UNCHANGED tracer_vars

\* find_all_vertices_and_segment_map is called with another batch: it makes
\* its registry, its vertex set, its map and its list of segments
CallFindAllVertices ==
    /\ pc = "returned"
    /\ Len(calls) < MaxBatches
    /\ \E raw_input_segments \in Batches :
           LET made == create_point_cache_and_factory(result, point_cache)
           IN  /\ segs' = raw_input_segments
               /\ result' = made.id
               /\ point_cache' = made.cache
               /\ args' = IF made.id = result THEN args
                          ELSE (result :> point_cache) @@ args
    /\ all_vertices' = {}
    /\ segment_to_points_map' = EmptyMap
    /\ canonical_segments' = <<>>
    /\ tested' = <<>>
    /\ pc' = "endpoints"
    /\ i' = 1
    /\ j' = 1
    /\ UNCHANGED <<last_hit, adj_list, calls>>
    /\ UNCHANGED tracer_vars

NextBatches ==
    \/ ProcessEndpoints
    \/ StartPairs
    \/ TestPair
    \/ ReturnVertices
    \/ CallFindAllVertices

SpecBatches == InitBatches /\ [][NextBatches]_vars

\* ------------------------------------------------------------------------
\* find_all_vertices_and_segment_map on input that may be malformed
\* ------------------------------------------------------------------------

\* p1_coords, p2_coords = raw_segment raises when the segment is not a
\* sequence of two
ValueError == [raised |-> "ValueError"]

\* the segments the inputs are made of: well-formed ones, one of one
\* coordinate pair, one of three, and two with a coordinate that is not a number
BoundarySegments ==
    { Lat(0, 0, 2, 0), Lat(1, 0, 1, 2), Lat(0, 0, 2, 2),
      << <<0, One>> >>,
      << <<0, 0>>, <<One, 0>>, <<One, One>> >>,
      Raw(2 * One, One, NaN, One),
      Raw(One, NaN, One, 2 * One) }

\* the largest number of segments of such an input
MaxBoundarySegs == 2

\* a coordinate of the raw segment is not a number
HasNaN(raw_segment) ==
    \E n \in 1..Len(raw_segment) : NaN \in {raw_segment[n][1], raw_segment[n][2]}

RECURSIVE SeqsUpTo(_, _)
SeqsUpTo(S, n) ==
    IF n = 0 THEN {<<>>}
    ELSE SeqsUpTo(S, n - 1) \cup
         {Append(q, e) : q \in {r \in SeqsUpTo(S, n - 1) : Len(r) = n - 1}, e \in S}

\* the inputs: one segment or more, at most one of them with a NaN
BoundaryInputs ==
    {q \in SeqsUpTo(BoundarySegments, MaxBoundarySegs) :
        /\ Len(q) >= 1
        /\ Cardinality({n \in 1..Len(q) : HasNaN(q[n])}) <= 1}

InitBoundary ==
    /\ segs \in BoundaryInputs
    /\ pc = "endpoints"
    /\ i = 1
    /\ j = 1
    /\ point_cache = EmptyMap
    /\ all_vertices = {}
    /\ segment_to_points_map = EmptyMap
    /\ canonical_segments = <<>>
    /\ last_hit = None
    /\ adj_list = EmptyMap
    /\ order = <<>>
    /\ perimeters = <<>>
    /\ faces = <<>>
    /\ visited_directed_edges = {}
    /\ found_faces = {}
    /\ last_trace = NoTrace
    /\ tested = <<>>
    /\ calls = <<>>
    /\ args = EmptyMap
    /\ result = 1

\* Phase 1, a raw segment that is not a sequence of two: the unpacking raises
\* and the call is over
RaiseValueError ==
    /\ pc = "endpoints"
    /\ i <= Len(segs)
    /\ Len(segs[i]) # 2
    /\ pc' = "raised"
    /\ result' = ValueError
    /\ UNCHANGED <<segs, i, j, point_cache, all_vertices, segment_to_points_map,
                   canonical_segments, last_hit, adj_list, tested, calls, args>>
    /\ UNCHANGED tracer_vars

NextBoundary ==
    \/ RaiseValueError
    \/ ProcessEndpoints
    \/ StartPairs
    \/ TestPair
    \/ ReturnVertices

SpecBoundary == InitBoundary /\ [][NextBoundary]_vars

\* ------------------------------------------------------------------------
\* build_graph called on its own, on a map of one segment
\* ------------------------------------------------------------------------

\* the Points of the maps: four on a line
ReferenceLine == {Point(k * One, 0) : k \in 0..3}

\* the keys of the maps: a segment along the line either way, one that
\* starts inside it, and one elsewhere
ReferenceSegments == {Lat(0, 0, 3, 0), Lat(3, 0, 0, 0), Lat(1, 0, 3, 0), Lat(5, 5, 9, 9)}

\* the registry that holds the Points of S
RegistryFor(S) == [key \in {RoundedKey(p.x, p.y) : p \in S} |->
                      CHOOSE p \in S : RoundedKey(p.x, p.y) = key]

\* build_graph(segment_to_points_map, all_vertices_set, point_cache) is called
\* with a map of one segment and two or more Points, with the registry of
\* the Points or without one; adj_list has its empty entries
InitReference ==
    /\ \E raw_seg_tuple \in ReferenceSegments :
       \E points_on_segment \in {S \in SUBSET ReferenceLine : Cardinality(S) >= 2} :
           /\ segs = <<raw_seg_tuple>>
           /\ segment_to_points_map = (raw_seg_tuple :> points_on_segment)
           /\ all_vertices = points_on_segment
           /\ point_cache \in {EmptyMap, RegistryFor(points_on_segment)}
           /\ adj_list = [vertex \in points_on_segment |-> EmptyMap]
    /\ pc = "build"
    /\ i = 1
    /\ j = 1
    /\ canonical_segments = <<>>
    /\ last_hit = None
    /\ order = <<>>
    /\ perimeters = <<>>
    /\ faces = <<>>
    /\ visited_directed_edges = {}
    /\ found_faces = {}
    /\ last_trace = NoTrace
    /\ tested = <<>>
    /\ calls = <<>>
    /\ args = <<>>
    /\ result = None

SpecReference == InitReference /\ [][BuildSegment]_vars

\* ------------------------------------------------------------------------
\* find_face_perimeters called on its own, on a given graph
\* ------------------------------------------------------------------------

\* an edge between two points of the unit lattice
E(a, b, c, d) == <<Point(a * One, b * One), Point(c * One, d * One)>>

\* the edges the graphs are made of: the sides and diagonals of two unit
\* squares side by side, and one edge that lies over two others
EdgePool ==
    { E(0, 0, 1, 0), E(1, 0, 2, 0), E(0, 1, 1, 1), E(1, 1, 2, 1),
      E(0, 0, 0, 1), E(1, 0, 1, 1), E(2, 0, 2, 1),
      E(0, 0, 1, 1), E(1, 0, 0, 1), E(1, 0, 2, 1), E(1, 1, 2, 0),
      E(0, 0, 2, 0) }

\* the largest number of edges of a graph taken from the pool
MaxEdges == 4

\* the graph build_graph makes of a set of edges: an entry for both ends of
\* each, the distance as weight both ways
RECURSIVE GraphOf(_, _)
GraphOf(edges, adj) ==
    IF edges = {} THEN adj
    ELSE LET e == CHOOSE x \in edges : TRUE
         IN  GraphOf(edges \ {e}, AddEdge(adj, e[1], e[2], euclidean_dist(e[1], e[2])))

EndsOfEdges(edges) == {e[1] : e \in edges} \cup {e[2] : e \in edges}

Graph(edges) == GraphOf(edges, [vertex \in EndsOfEdges(edges) |-> EmptyMap])

\* a square with a dangling edge inwards at two opposite corners
TwoWhiskers ==
    { E(0, 0, 2, 0), E(2, 0, 2, 2), E(2, 2, 0, 2), E(0, 2, 0, 0),
      <<Point(0, 0), Point(One \div 2, One \div 2)>>,
      <<Point(2 * One, 2 * One), Point(One + One \div 2, One + One \div 2)>> }

\* two unit squares side by side with the diagonals of the first
GridWithCross ==
    { E(0, 0, 1, 0), E(1, 0, 2, 0), E(0, 1, 1, 1), E(1, 1, 2, 1),
      E(0, 0, 0, 1), E(1, 0, 1, 1), E(2, 0, 2, 1),
      E(0, 0, 1, 1), E(1, 0, 0, 1) }

\* a chain of five vertices
Chain == { E(0, 0, 1, 0), E(1, 0, 2, 0), E(2, 0, 2, 1), E(2, 1, 1, 1) }

\* the graph without the entry of u among the neighbours of v: an edge that
\* leads from u to v and not back
WithoutBack(graph, u, v) ==
    [graph EXCEPT ![v] = [n \in DOMAIN graph[v] \ {u} |-> graph[v][n]]]

\* graphs that build_graph does not make and a caller may pass: a triangle
\* and a chain, each with an edge that does not lead back
OneWayGraphs ==
    { WithoutBack(Graph({E(0, 0, 1, 0), E(1, 0, 1, 1), E(1, 1, 0, 0)}),
                  Point(One, 0), Point(One, One)),
      WithoutBack(Graph({E(0, 0, 1, 0), E(1, 0, 2, 0)}), Point(One, 0), Point(2 * One, 0)) }

\* the graphs find_face_perimeters is called with
TraceGraphs ==
    {Graph(edges) : edges \in {S \in SUBSET EdgePool : Cardinality(S) <= MaxEdges}}
        \cup {Graph(TwoWhiskers), Graph(GridWithCross), Graph(Chain)}
        \cup OneWayGraphs

\* find_face_perimeters(graph) is called: nothing found, nothing visited
InitTrace ==
    /\ adj_list \in TraceGraphs
    /\ order \in GraphOrders(DOMAIN adj_list)
    /\ pc = "trace"
    /\ i = 1
    /\ j = 1
    /\ segs = <<>>
    /\ point_cache = EmptyMap
    /\ all_vertices = DOMAIN adj_list
    /\ segment_to_points_map = EmptyMap
    /\ canonical_segments = <<>>
    /\ last_hit = None
    /\ perimeters = <<>>
    /\ faces = <<>>
    /\ visited_directed_edges = {}
    /\ found_faces = {}
    /\ last_trace = NoTrace
    /\ tested = <<>>
    /\ calls = <<>>
    /\ args = <<>>
    /\ result = None

NextTrace ==
    \/ TryStartEdge
    \/ NextStartNode
    \/ Return

SpecTrace == InitTrace /\ [][NextTrace]_vars

\* what every step of NextTrace does to the loop variables: the inner loop
\* goes to the next neighbour, the outer loop to the next start node, or the
\* function returns; one of the three can be done as long as pc = "trace"
LoopControl ==
    /\ pc = "trace"
    /\ \/ /\ i <= Len(order)
          /\ j <= Cardinality(DOMAIN adj_list[order[i]])
          /\ j' = j + 1
          /\ UNCHANGED <<i, pc>>
       \/ /\ i <= Len(order)
          /\ j > Cardinality(DOMAIN adj_list[order[i]])
          /\ i' = i + 1
          /\ j' = 1
          /\ UNCHANGED pc
       \/ /\ i > Len(order)
          /\ pc' = "done"
          /\ UNCHANGED <<i, j>>

\* the loops of find_face_perimeters go on until they are through: the
\* interpreter does not stop in the middle of a for loop
SpecTraceFair == SpecTrace /\ WF_<<i, j, pc>>(LoopControl)

\* ------------------------------------------------------------------------
\* Reference geometry: the faces of the graph, found without walking it
\* ------------------------------------------------------------------------

\* twice the signed area of the triangle o, a, b
Cross(o, a, b) == (a.x - o.x) * (b.y - o.y) - (a.y - o.y) * (b.x - o.x)

Min(a, b) == IF a < b THEN a ELSE b

Max(a, b) == IF a < b THEN b ELSE a

\* q lies on the closed segment from a to b
OnSegment(a, b, q) ==
    /\ Cross(a, b, q) = 0
    /\ Min(a.x, b.x) <= q.x /\ q.x <= Max(a.x, b.x)
    /\ Min(a.y, b.y) <= q.y /\ q.y <= Max(a.y, b.y)

\* the closed segments a-b and c-d have a point in common
SegmentsMeet(a, b, c, d) ==
    \/ /\ Sign(Cross(c, d, a)) * Sign(Cross(c, d, b)) < 0
       /\ Sign(Cross(a, b, c)) * Sign(Cross(a, b, d)) < 0
    \/ OnSegment(c, d, a) \/ OnSegment(c, d, b)
    \/ OnSegment(a, b, c) \/ OnSegment(a, b, d)

\* the edges of the graph, each a set of two vertices
UndirectedEdges(graph) ==
    UNION {{{u, v} : v \in DOMAIN graph[u]} : u \in DOMAIN graph}

\* two different edges have a point in common that is not an end of both
EdgesConflict(e, f) ==
    IF e \cap f = {}
    THEN LET a == CHOOSE x \in e : TRUE
             b == CHOOSE x \in e : x # a
             c == CHOOSE x \in f : TRUE
             d == CHOOSE x \in f : x # c
         IN  SegmentsMeet(a, b, c, d)
    ELSE LET o == CHOOSE x \in e \cap f : TRUE
             b == CHOOSE x \in e : x # o
             d == CHOOSE x \in f : x # o
         IN  /\ Cross(o, b, d) = 0
             /\ (b.x - o.x) * (d.x - o.x) + (b.y - o.y) * (d.y - o.y) > 0

\* the graph is drawn without crossing or overlapping edges: any two edges
\* meet at a common end vertex or not at all
ProperEmbedding(graph) ==
    \A e, f \in UndirectedEdges(graph) : e # f => ~EdgesConflict(e, f)

\* the simple paths of the graph that extend those of P by one vertex, over
\* vertices after the first one in (x, y) order
ExtendPaths(graph, P) ==
    UNION {{Append(q, n) : n \in {m \in DOMAIN graph[q[Len(q)]] :
                                      m \notin SeqToSet(q) /\ LexLess(q[1], m)}} : q \in P}

RECURSIVE PathsUpTo(_, _, _)
PathsUpTo(graph, P, k) ==
    IF P = {} \/ k = 0 THEN {} ELSE P \cup PathsUpTo(graph, ExtendPaths(graph, P), k - 1)

\* the simple cycles of the graph, each once: from its least vertex, in the
\* direction of the lesser of that vertex's two cycle neighbours
SimpleCycles(graph) ==
    {q \in PathsUpTo(graph, {<<v>> : v \in DOMAIN graph}, Cardinality(DOMAIN graph)) :
        /\ Len(q) >= 3
        /\ q[1] \in DOMAIN graph[q[Len(q)]]
        /\ LexLess(q[2], q[Len(q)])}

\* twice the signed area of the polygon q, as a fan of triangles from q[1]
RECURSIVE FanSum(_, _)
FanSum(q, k) ==
    IF k >= Len(q) THEN 0 ELSE Cross(q[1], q[k], q[k + 1]) + FanSum(q, k + 1)

Area2(q) == FanSum(q, 2)

\* the edges of the cycle q
CycleEdges(q) == {{q[k], q[(k % Len(q)) + 1]} : k \in 1..Len(q)}

\* the sum of the weights along the cycle q
RECURSIVE CycleLengthFrom(_, _, _)
CycleLengthFrom(graph, q, k) ==
    IF k > Len(q) THEN 0
    ELSE graph[q[k]][q[(k % Len(q)) + 1]] + CycleLengthFrom(graph, q, k + 1)

CycleLength(graph, q) == CycleLengthFrom(graph, q, 1)

\* the point with coordinates (x2/2, y2/2) lies strictly inside the polygon
\* q: not on its boundary, and a ray to the right crosses the boundary an odd
\* number of times
StrictlyInside(x2, y2, q) ==
    LET n == Len(q)
        a(k) == Point(2 * q[k].x, 2 * q[k].y)
        b(k) == Point(2 * q[(k % n) + 1].x, 2 * q[(k % n) + 1].y)
        c == Point(x2, y2)
        crosses(k) ==
            /\ (a(k).y > y2) # (b(k).y > y2)
            /\ IF b(k).y > a(k).y
               THEN (x2 - a(k).x) * (b(k).y - a(k).y) < (y2 - a(k).y) * (b(k).x - a(k).x)
               ELSE (x2 - a(k).x) * (b(k).y - a(k).y) > (y2 - a(k).y) * (b(k).x - a(k).x)
    IN  /\ \A k \in 1..n : ~OnSegment(a(k), b(k), c)
        /\ Cardinality({k \in 1..n : crosses(k)}) % 2 = 1

\* the bounded faces of the graph whose boundary is a simple cycle: the
\* simple cycles that enclose an area and have no vertex and no edge of the
\* graph inside
BoundedFaces(graph) ==
    {q \in SimpleCycles(graph) :
        /\ Area2(q) # 0
        /\ \A v \in DOMAIN graph \ SeqToSet(q) : ~StrictlyInside(2 * v.x, 2 * v.y, q)
        /\ \A e \in UndirectedEdges(graph) \ CycleEdges(q) :
               LET u == CHOOSE x \in e : TRUE
                   w == CHOOSE x \in e : x # u
               IN  ~StrictlyInside(u.x + w.x, u.y + w.y, q)}

\* the edges of a closed walk
WalkEdges(path) == {{path[k], path[k + 1]} : k \in 1..(Len(path) - 1)}

\* the walk without its closing vertex
Open(path) == SubSeq(path, 1, Len(path) - 1)

\* the face q has exactly one perimeter in the result, the length of q
ReportedOnce(q) ==
    LET hits == {k \in 1..Len(faces) : WalkEdges(faces[k]) = CycleEdges(q)}
    IN  /\ Cardinality(hits) = 1
        /\ \A k \in hits : perimeters[k] = CycleLength(adj_list, q)

\* no perimeter stands for the unbounded region: the right-hand walk around
\* it is counter-clockwise, and every reported walk is clockwise
OuterRegionUnreported == \A k \in 1..Len(faces) : Area2(Open(faces[k])) < 0

\* ------------------------------------------------------------------------
\* C1
\* ------------------------------------------------------------------------

\* C1, as stated: when the run is over, every bounded face of the graph whose
\* boundary is a simple cycle has exactly one perimeter in the result, and the
\* unbounded region has none.
C1_EveryFaceOnce ==
    pc = "done" =>
        /\ \A q \in BoundedFaces(adj_list) : ReportedOnce(q)
        /\ OuterRegionUnreported

\* C1, amended: when the run is over and the graph is drawn without crossing
\* or overlapping edges, every bounded face whose boundary is a simple cycle
\* and whose area exceeds the tolerance has exactly one perimeter in the
\* result, and the unbounded region has none.
C1_FacesOfProperGraphOnce ==
    (pc = "done" /\ ProperEmbedding(adj_list)) =>
        /\ \A q \in BoundedFaces(adj_list) :
               Abs(Area2(q)) > 2 * GEOMETRIC_TOLERANCE * One => ReportedOnce(q)
        /\ OuterRegionUnreported

\* a run that ends on a properly drawn graph of four or more bounded faces,
\* all of them above the tolerance, with as many perimeters as faces
C1_Witness ==
    /\ pc = "done"
    /\ ProperEmbedding(adj_list)
    /\ Cardinality(BoundedFaces(adj_list)) >= 4
    /\ Len(perimeters) = Cardinality(BoundedFaces(adj_list))
    /\ \A q \in BoundedFaces(adj_list) : Abs(Area2(q)) > 2 * GEOMETRIC_TOLERANCE * One

\* ------------------------------------------------------------------------
\* C2
\* ------------------------------------------------------------------------

\* C2: every accepted face is a closed walk of at least three vertices, no
\* vertex repeated (as many vertices as directed edges), consecutive vertices
\* adjacent in the graph, of signed area below minus the tolerance.
C2_AcceptedFaceIsSimpleClockwiseCycle ==
    \A k \in 1..Len(faces) :
        LET path == faces[k]
            n == Len(path) - 1
        IN  /\ n >= 3
            /\ path[n + 1] = path[1]
            /\ \A a, b \in 1..n : a # b => ~PointEq(path[a], path[b])
            /\ Cardinality({path[a] : a \in 1..n}) = Cardinality(PathEdges(path))
            /\ \A a \in 1..n :
                   /\ path[a] \in DOMAIN adj_list
                   /\ path[a + 1] \in DOMAIN adj_list[path[a]]
            /\ Area2(Open(path)) < -(2 * GEOMETRIC_TOLERANCE * One)

\* a face of four or more vertices has just been accepted, not the first of
\* its run
C2_Witness ==
    /\ last_trace.verdict = "accepted"
    /\ Len(last_trace.path) >= 5
    /\ Len(faces) >= 2
    /\ faces[Len(faces)] = last_trace.path

\* ------------------------------------------------------------------------
\* C3
\* ------------------------------------------------------------------------

\* C3: the graph is undirected and its weights are symmetric: v is a
\* neighbour of u exactly when u is a neighbour of v, with the same weight.
C3_GraphIsSymmetric ==
    \A u \in DOMAIN adj_list : \A v \in DOMAIN adj_list[u] :
        /\ v \in DOMAIN adj_list
        /\ u \in DOMAIN adj_list[v]
        /\ adj_list[v][u] = adj_list[u][v]

\* the graph is built, and one of its edges joins two points that two
\* different segments both carry
C3_Witness ==
    /\ pc = "done"
    /\ \E r1, r2 \in DOMAIN segment_to_points_map :
           /\ r1 # r2
           /\ \E u, v \in segment_to_points_map[r1] \cap segment_to_points_map[r2] :
                  u # v /\ v \in DOMAIN adj_list[u]

\* ------------------------------------------------------------------------
\* C10
\* ------------------------------------------------------------------------

\* C10: no vertex is its own neighbour, no edge joins two points equal under
\* the rounding rule, and every weight exceeds the tolerance.
C10_NoSelfLoopNoShortEdge ==
    \A u \in DOMAIN adj_list : \A v \in DOMAIN adj_list[u] :
        /\ u # v
        /\ ~(round(u.x) = round(v.x) /\ round(u.y) = round(v.y))
        /\ adj_list[u][v] > GEOMETRIC_TOLERANCE

\* the graph is built with at least one edge, and two different points of one
\* segment, no farther apart than the tolerance, were left unjoined
C10_Witness ==
    /\ pc = "done"
    /\ \E u \in DOMAIN adj_list : adj_list[u] # EmptyMap
    /\ \E raw \in DOMAIN segment_to_points_map :
           \E p, q \in segment_to_points_map[raw] :
               /\ p # q
               /\ euclidean_dist(p, q) <= GEOMETRIC_TOLERANCE
               /\ q \notin DOMAIN adj_list[p]

\* ------------------------------------------------------------------------
\* C7
\* ------------------------------------------------------------------------

\* the canonical end points of a raw segment
FirstEnd(raw) == point_cache[RoundedKey(raw[1][1], raw[1][2])]

SecondEnd(raw) == point_cache[RoundedKey(raw[2][1], raw[2][2])]

\* the position of p along the raw segment: its projection on the direction
\* from the first end to the second
Along(raw, p) ==
    (p.x - FirstEnd(raw).x) * (SecondEnd(raw).x - FirstEnd(raw).x)
    + (p.y - FirstEnd(raw).y) * (SecondEnd(raw).y - FirstEnd(raw).y)

\* r lies between p and q along the raw segment
Between(raw, p, r, q) ==
    \/ Along(raw, p) < Along(raw, r) /\ Along(raw, r) < Along(raw, q)
    \/ Along(raw, q) < Along(raw, r) /\ Along(raw, r) < Along(raw, p)

\* p and q are consecutive among the points S of the raw segment
Consecutive(raw, S, p, q) ==
    p # q /\ ~\E r \in S \ {p, q} : Between(raw, p, r, q)

\* build_graph has gone through the entry of the raw segment
Built(raw) ==
    \/ pc \in {"trace", "done"}
    \/ pc = "build" /\ \E k \in 1..(i - 1) : MapKeys(segs)[k] = raw

\* w is the distance from p to q, rounded up to a quantum
IsDistance(w, p, q) ==
    LET d2 == (p.x - q.x) * (p.x - q.x) + (p.y - q.y) * (p.y - q.y)
    IN  (w - 1) * (w - 1) < d2 /\ d2 <= w * w

\* p and q are farther apart than the tolerance
Apart(p, q) ==
    (p.x - q.x) * (p.x - q.x) + (p.y - q.y) * (p.y - q.y)
        > GEOMETRIC_TOLERANCE * GEOMETRIC_TOLERANCE

\* C7: once build_graph has gone through a segment of two or more points,
\* its points are joined exactly where they are consecutive along the segment
\* (and farther apart than the tolerance): no edge between two of them spans a
\* third, k points farther apart than the tolerance have k - 1 edges, and
\* every such edge weighs the distance between its two points.
C7_EdgesJoinConsecutivePoints ==
    \A raw \in DOMAIN segment_to_points_map :
        LET S == segment_to_points_map[raw]
            joined == {e \in S \X S : LexLess(e[1], e[2]) /\ e[2] \in DOMAIN adj_list[e[1]]}
        IN  (Built(raw) /\ Cardinality(S) >= 2) =>
                /\ \A p, q \in S :
                       (p # q /\ q \in DOMAIN adj_list[p]) =>
                           /\ Consecutive(raw, S, p, q)
                           /\ IsDistance(adj_list[p][q], p, q)
                /\ \A p, q \in S :
                       (Consecutive(raw, S, p, q) /\ Apart(p, q)) => q \in DOMAIN adj_list[p]
                /\ (\A p, q \in S : p # q => Apart(p, q)) =>
                       Cardinality(joined) = Cardinality(S) - 1

\* ------------------------------------------------------------------------
\* C6
\* ------------------------------------------------------------------------

\* the intersection test on the canonical segments a and b
HitOf(a, b) ==
    get_segment_intersection(canonical_segments[a].canonical, canonical_segments[b].canonical)

\* the end points registered in phase 1
Endpoints == UNION {{FirstEnd(segs[k]), SecondEnd(segs[k])} : k \in 1..Len(segs)}

\* when find_all_vertices_and_segment_map has returned: the canonical point
\* of every pair's intersection is a vertex and is in the point sets of both
\* segments of the pair, and every unordered pair has been tested once
C6_AfterPairs ==
    pc \in {"build", "trace", "done"} =>
        LET n == Len(canonical_segments)
        IN  /\ \A a, b \in 1..n :
                   (a < b /\ HitOf(a, b) # None) =>
                       LET key == RoundedKey(HitOf(a, b).x, HitOf(a, b).y)
                       IN  /\ key \in DOMAIN point_cache
                           /\ point_cache[key] \in all_vertices
                           /\ point_cache[key] \in
                                  segment_to_points_map[canonical_segments[a].original]
                           /\ point_cache[key] \in
                                  segment_to_points_map[canonical_segments[b].original]
            /\ \A a, b \in 1..n :
                   a < b =>
                       Cardinality({k \in 1..Len(tested) :
                                       tested[k] \in {<<a, b>>, <<b, a>>}}) = 1
            /\ 2 * Len(tested) = n * (n - 1)

\* a test whose intersection has the rounded key of a registered point adds
\* no entry to the registry and no vertex
C6_ReusesRegisteredPoint ==
    (/\ tested' # tested
     /\ last_hit' # None
     /\ RoundedKey(last_hit'.x, last_hit'.y) \in DOMAIN point_cache)
        => (point_cache' = point_cache /\ all_vertices' = all_vertices)

\* C6: after find_all_vertices_and_segment_map the canonical point of every
\* pair's intersection is in the vertex set and in both segments' point sets,
\* every unordered pair has been tested exactly once, and an intersection that
\* coincides with a registered point reuses it and adds no vertex.
C6_IntersectionsRecordedOnce == []C6_AfterPairs /\ [][C6_ReusesRegisteredPoint]_vars

\* the pairs are done: one pair met at an end point of a segment and no
\* vertex came of it, another met at a point that is no end point
C6_Witness ==
    /\ pc = "build"
    /\ Len(tested) >= 3
    /\ \E a, b \in 1..Len(canonical_segments) :
           /\ a < b
           /\ HitOf(a, b) # None
           /\ point_cache[RoundedKey(HitOf(a, b).x, HitOf(a, b).y)] \in Endpoints
    /\ \E a, b \in 1..Len(canonical_segments) :
           /\ a < b
           /\ HitOf(a, b) # None
           /\ point_cache[RoundedKey(HitOf(a, b).x, HitOf(a, b).y)] \notin Endpoints
    /\ Cardinality(all_vertices) = Cardinality(Endpoints) + 1

\* ------------------------------------------------------------------------
\* C4
\* ------------------------------------------------------------------------

\* the arguments of the call of the intersection finder
P1 == args[1][1]

P2 == args[1][2]

P3 == args[2][1]

P4 == args[2][2]

\* the cross product of the two directions
Den == (P2.x - P1.x) * (P4.y - P3.y) - (P2.y - P1.y) * (P4.x - P3.x)

\* the quotient n/Den lies in [-eps, 1 + eps], eps being GEOMETRIC_TOLERANCE
InPaddedRange(n) ==
    /\ -(GEOMETRIC_TOLERANCE * Abs(Den)) <= One * n * Sign(Den)
    /\ One * n * Sign(Den) <= (One + GEOMETRIC_TOLERANCE) * Abs(Den)

\* the coordinate c is the exact coordinate from + (n/Den) * span, up to the
\* rounding of the quotient, of the product and of the sum: half a quantum
\* of 1/One on the quotient, half a quantum on the coordinate
IsRounded(c, from, n, span, dir) ==
    Abs(Den * (c - from) - n * span) <= ((Abs(dir) + One) * Abs(Den)) \div (2 * One)

\* C4: for segments that are not parallel, t = T/Den and u = U/Den are the
\* parameters of the point where the two lines meet (the only one, Den not
\* being zero): P1 + t (P2 - P1) = P3 + u (P4 - P3).  The finder returns a
\* point exactly when t and u both lie in [-eps, 1 + eps], and the point is
\* P1 + t (P2 - P1), which is P3 + u (P4 - P3) as well, as rounded by the
\* arithmetic.
C4_PointIffBothParametersInRange ==
    (pc = "returned" /\ Abs(Den) > GEOMETRIC_TOLERANCE * One) =>
        LET T == IntersectionParams(args[1], args[2]).t
            U == IntersectionParams(args[1], args[2]).u
        IN  /\ Den * P1.x + T * (P2.x - P1.x) = Den * P3.x + U * (P4.x - P3.x)
            /\ Den * P1.y + T * (P2.y - P1.y) = Den * P3.y + U * (P4.y - P3.y)
            /\ (result # None) <=> (InPaddedRange(T) /\ InPaddedRange(U))
            /\ result # None =>
                   /\ IsRounded(result.x, P1.x, T, P2.x - P1.x, P2.x - P1.x)
                   /\ IsRounded(result.y, P1.y, T, P2.y - P1.y, P2.y - P1.y)
                   /\ IsRounded(result.x, P3.x, U, P4.x - P3.x, P2.x - P1.x)
                   /\ IsRounded(result.y, P3.y, U, P4.y - P3.y, P2.y - P1.y)

\* a point was returned for a meeting point a little before the start of the
\* first segment, within the padding
C4_Witness ==
    /\ pc = "returned"
    /\ Abs(Den) > GEOMETRIC_TOLERANCE * One
    /\ result # None
    /\ IntersectionParams(args[1], args[2]).t * Sign(Den) < 0

\* ------------------------------------------------------------------------
\* C5
\* ------------------------------------------------------------------------

\* C5: for segments whose directions have a cross product within the
\* tolerance of zero (parallel, collinear and overlapping, identical, one the
\* reverse of the other) the finder returns None, and does not raise.
C5_NoneForParallel ==
    (pc = "returned" /\ Abs(Den) <= GEOMETRIC_TOLERANCE * One) => result = None

\* None was returned for two collinear segments that overlap in more than a
\* point
C5_Witness ==
    /\ pc = "returned"
    /\ Den = 0
    /\ P1 # P2 /\ P3 # P4
    /\ OnSegment(P1, P2, P3) /\ OnSegment(P1, P2, P4)
    /\ result = None

\* ------------------------------------------------------------------------
\* C9
\* ------------------------------------------------------------------------

\* the multiple of 10^-POINT_PRECISION_DECIMALS nearest to the coordinate v,
\* the even one of two equally near
NearestCell(v) ==
    LET w == v * Pow10(POINT_PRECISION_DECIMALS)
    IN  CHOOSE k \in 0..((w \div One) + 1) :
            \/ 2 * Abs(w - k * One) < One
            \/ 2 * Abs(w - k * One) = One /\ k % 2 = 0

\* a rounding boundary lies strictly between the coordinates v and w
Straddle(v, w) ==
    \E k \in 0..(MaxCompareX * Pow10(POINT_PRECISION_DECIMALS)) :
        /\ 2 * Pow10(POINT_PRECISION_DECIMALS) * Min(v, w) < (2 * k + 1) * One
        /\ (2 * k + 1) * One < 2 * Pow10(POINT_PRECISION_DECIMALS) * Max(v, w)

\* C9: two Points are equal exactly when both their coordinates round to the
\* same values; equal Points have equal hashes; Points on opposite sides of
\* a rounding boundary are unequal, however close.
C9_EqualityByRoundedCoordinates ==
    pc = "returned" =>
        /\ result.eq <=> (/\ NearestCell(args[1].x) = NearestCell(args[2].x)
                          /\ NearestCell(args[1].y) = NearestCell(args[2].y))
        /\ result.eq => result.hash1 = result.hash2
        /\ (Straddle(args[1].x, args[2].x) \/ Straddle(args[1].y, args[2].y)) => ~result.eq

\* two Points two quanta apart across a boundary have compared unequal,
\* while two Points farther apart are equal
C9_Witness ==
    /\ pc = "returned"
    /\ Straddle(args[1].x, args[2].x)
    /\ Abs(args[1].x - args[2].x) <= 2
    /\ args[1].y = args[2].y
    /\ ~result.eq
    /\ \E r, s \in ComparePoints :
           /\ Abs(r.x - s.x) > 2
           /\ r.y = s.y
           /\ PointEq(r, s)

\* ------------------------------------------------------------------------
\* C8
\* ------------------------------------------------------------------------

\* the rounded key of a call
KeyOf(c) == <<NearestCell(c.x), NearestCell(c.y)>>

\* every call has returned the Point made by the first call with its rounded
\* key, with the coordinates of that call, and the registry holds that Point
C8_FirstCallMakesThePoint ==
    \A a \in 1..Len(calls) :
        LET first == CHOOSE b \in 1..a :
                         /\ KeyOf(calls[b]) = KeyOf(calls[a])
                         /\ \A c \in 1..(b - 1) : KeyOf(calls[c]) # KeyOf(calls[a])
        IN  /\ calls[a].returned = Point(calls[first].x, calls[first].y)
            /\ KeyOf(calls[a]) \in DOMAIN point_cache
            /\ point_cache[KeyOf(calls[a])] = calls[a].returned

\* a call removes and replaces no entry; a hit leaves the registry as it is,
\* a miss adds one entry
C8_CallKeepsEntries ==
    calls' # calls =>
        LET key == KeyOf(calls'[Len(calls')])
        IN  /\ \A k \in DOMAIN point_cache :
                   k \in DOMAIN point_cache' /\ point_cache'[k] = point_cache[k]
            /\ key \in DOMAIN point_cache => point_cache' = point_cache
            /\ key \notin DOMAIN point_cache =>
                   /\ DOMAIN point_cache' = DOMAIN point_cache \cup {key}
                   /\ Cardinality(DOMAIN point_cache') = Cardinality(DOMAIN point_cache) + 1

\* C8: calls with the same rounded key return the same Point, which keeps the
\* unrounded coordinates of the call that made it; no entry is ever removed
\* or replaced; a hit leaves the registry unchanged and a miss adds exactly
\* one entry.
C8_RegistryKeepsFirstPoint == []C8_FirstCallMakesThePoint /\ [][C8_CallKeepsEntries]_vars

\* three calls: the second had the key of the first with other coordinates
\* and got the first one's Point, the third had a new key
C8_Witness ==
    /\ Len(calls) = 3
    /\ KeyOf(calls[2]) = KeyOf(calls[1])
    /\ calls[2].x # calls[1].x
    /\ calls[2].returned = calls[1].returned
    /\ KeyOf(calls[3]) # KeyOf(calls[1])
    /\ Cardinality(DOMAIN point_cache) = 2

\* ------------------------------------------------------------------------
\* C17
\* ------------------------------------------------------------------------

\* the intersection finder called with the two segments in the other order
Swapped == get_segment_intersection(args[2], args[1])

\* C17: the finder called on (a, b) and on (b, a) returns None both times, or
\* two points that are equal under the rounding rule.
C17_IntersectionIsSymmetric ==
    pc = "returned" =>
        \/ result = None /\ Swapped = None
        \/ /\ result # None
           /\ Swapped # None
           /\ NearestCell(result.x) = NearestCell(Swapped.x)
           /\ NearestCell(result.y) = NearestCell(Swapped.y)

\* ------------------------------------------------------------------------
\* C11
\* ------------------------------------------------------------------------

\* the sum of the weights of the directed edges of a walk, from its k-th on
RECURSIVE WalkWeightFrom(_, _, _)
WalkWeightFrom(graph, path, k) ==
    IF k >= Len(path) THEN 0
    ELSE graph[path[k]][path[k + 1]] + WalkWeightFrom(graph, path, k + 1)

\* the place of an element in a sequence without repetition
IndexIn(seq, x) == CHOOSE k \in 1..Len(seq) : seq[k] = x

\* the start edge of walk f is tried before the start edge of walk g
StartsBefore(f, g) ==
    \/ IndexIn(order, f[1]) < IndexIn(order, g[1])
    \/ /\ f[1] = g[1]
       /\ IndexIn(SortedByXY(DOMAIN adj_list[f[1]]), f[2])
              < IndexIn(SortedByXY(DOMAIN adj_list[g[1]]), g[2])

\* C11: there is one perimeter per accepted face, in the order in which the
\* faces were found, and each is the sum of the weights of the directed edges
\* of its face, a positive number.
C11_PerimeterIsSumOfFaceWeights ==
    /\ Len(perimeters) = Len(faces)
    /\ \A k \in 1..Len(faces) :
           /\ perimeters[k] = WalkWeightFrom(adj_list, faces[k], 1)
           /\ perimeters[k] > 0
    /\ \A k, l \in 1..Len(faces) : k < l => StartsBefore(faces[k], faces[l])

\* the run is over with two faces of different perimeters
C11_Witness ==
    /\ pc = "done"
    /\ Len(perimeters) >= 2
    /\ perimeters[1] # perimeters[2]

\* ------------------------------------------------------------------------
\* C12
\* ------------------------------------------------------------------------

\* the vertices that can be reached from those of S
RECURSIVE ReachFrom(_, _)
ReachFrom(graph, S) ==
    LET T == S \cup UNION {DOMAIN graph[v] : v \in S}
    IN  IF T = S THEN S ELSE ReachFrom(graph, T)

\* the connected components of the graph, as sets of vertices
Components(graph) == {ReachFrom(graph, {v}) : v \in DOMAIN graph}

\* the number of bounded regions of a planar graph: E - V + C
BoundedRegions(graph) ==
    Cardinality(UndirectedEdges(graph)) - Cardinality(DOMAIN graph)
        + Cardinality(Components(graph))

\* C12: on a graph drawn without crossing or overlapping edges, the number of
\* perimeters never exceeds the number E - V + C of bounded regions.
C12_NoMorePerimetersThanRegions ==
    (pc \in {"trace", "done"} /\ ProperEmbedding(adj_list)) =>
        Len(perimeters) <= BoundedRegions(adj_list)

\* the run is over on a properly drawn graph of two components, with as many
\* perimeters as bounded regions
C12_Witness ==
    /\ pc = "done"
    /\ ProperEmbedding(adj_list)
    /\ Cardinality(Components(adj_list)) = 2
    /\ Len(perimeters) = 2
    /\ BoundedRegions(adj_list) = 2

\* ------------------------------------------------------------------------
\* C13
\* ------------------------------------------------------------------------

\* the vertex set of a closed walk
VertexSet(path) == SeqToSet(Open(path))

\* no two accepted faces have the same vertex set, and the found-face set
\* holds the vertex sets of the accepted faces, one per perimeter
C13_OneFacePerVertexSet ==
    /\ \A k, l \in 1..Len(faces) : k # l => VertexSet(faces[k]) # VertexSet(faces[l])
    /\ found_faces = {VertexSet(faces[k]) : k \in 1..Len(faces)}
    /\ Len(perimeters) = Cardinality(found_faces)

\* a closed trace whose vertex set is in the found-face set adds nothing
C13_DuplicateDiscarded ==
    (/\ last_trace' # last_trace
     /\ last_trace'.outcome = "closed"
     /\ VertexSet(last_trace'.path) \in found_faces)
        => (perimeters' = perimeters /\ faces' = faces /\ found_faces' = found_faces)

\* C13: at every point of the run no two accepted faces have the same vertex
\* set, there are as many perimeters as vertex sets in the found-face set, and
\* a closed trace whose vertex set was already accepted is discarded.
C13_FacesDistinctByVertexSet == []C13_OneFacePerVertexSet /\ [][C13_DuplicateDiscarded]_vars

\* a closed trace has just been discarded for its vertex set, with a face
\* on record
C13_Witness ==
    /\ last_trace.verdict = "duplicate"
    /\ VertexSet(last_trace.path) \in found_faces
    /\ Len(perimeters) >= 1

\* ------------------------------------------------------------------------
\* C14
\* ------------------------------------------------------------------------

\* the multiset of the elements of a sequence
BagOf(seq) == [v \in SeqToSet(seq) |-> Cardinality({k \in 1..Len(seq) : seq[k] = v})]

\* sorted(S, key=lambda p: (p.y, p.x))
RECURSIVE SortedByYX(_)
SortedByYX(S) ==
    IF S = {} THEN <<>>
    ELSE LET m == CHOOSE p \in S :
                      \A q \in S : p.y < q.y \/ (p.y = q.y /\ p.x <= q.x)
         IN  <<m>> \o SortedByYX(S \ {m})

\* a sequence turned round by r places
Rotated(seq, r) == [k \in 1..Len(seq) |-> seq[((k + r - 1) % Len(seq)) + 1]]

\* orders of the start vertices to compare a run with: the order of the run
\* itself, the order by (y, x), and the (x, y) order from its middle on; the
\* runs themselves take the (x, y) order both ways
OrdersToCompare(V) ==
    IF V = {} THEN {<<>>}
    ELSE {order, SortedByYX(V), Rotated(SortedByXY(V), Cardinality(V) \div 2)}

RECURSIVE Prune(_)
Prune(graph) ==
    LET leaves == {v \in DOMAIN graph : Cardinality(DOMAIN graph[v]) = 1}
    IN  IF leaves = {} THEN graph
        ELSE Prune([v \in DOMAIN graph \ leaves |->
                       [n \in DOMAIN graph[v] \ leaves |-> graph[v][n]]])

\* the vertices of a sequence that are vertices of the graph, in their order
Kept(seq, graph) == SelectSeq(seq, LAMBDA v : v \in DOMAIN graph)

\* C15: dangling edges never contribute: a finished run has the multiset of
\* perimeters that the tracer gives for the graph with its vertices of degree
\* 1 removed repeatedly (so none at all when the graph has no cycle).
C15_DanglingEdgesDoNotContribute ==
    pc = "done" =>
        BagOf(perimeters) =
            BagOf(find_face_perimeters(Prune(adj_list),
                                       Kept(order, Prune(adj_list))).perimeters)

\* ------------------------------------------------------------------------
\* C16
\* ------------------------------------------------------------------------

\* the vertices of other components than q's that lie strictly inside the
\* simple cycle q
Enclosed(graph, q) ==
    {v \in DOMAIN graph \ ReachFrom(graph, {q[1]}) : StrictlyInside(2 * v.x, 2 * v.y, q)}

\* the simple cycles that bound a region with a hole: an area above the
\* tolerance, nothing of the cycle's own component inside, and a separate
\* component inside
HoledFaces(graph) ==
    {q \in SimpleCycles(graph) :
        /\ Abs(Area2(q)) > 2 * GEOMETRIC_TOLERANCE * One
        /\ Enclosed(graph, q) # {}
        /\ \A v \in ReachFrom(graph, {q[1]}) \ SeqToSet(q) :
               ~StrictlyInside(2 * v.x, 2 * v.y, q)
        /\ \A e \in UndirectedEdges(graph) \ CycleEdges(q) :
               LET u == CHOOSE x \in e : TRUE
                   w == CHOOSE x \in e : x # u
               IN  u \in ReachFrom(graph, {q[1]}) => ~StrictlyInside(u.x + w.x, u.y + w.y, q)}

\* C16: components are traced independently: when the run is over and the
\* graph is drawn without crossing or overlapping edges, a simple cycle that
\* strictly encloses a separate component has exactly one perimeter in the
\* result, the length of the cycle alone, and every face of the enclosed
\* component has its own perimeter, once; the square round a square half its
\* size gives exactly the two perimeters of the squares.
C16_EnclosingRegionOnceWithOuterCycle ==
    /\ (pc = "done" /\ ProperEmbedding(adj_list) /\ Cardinality(Components(adj_list)) >= 2) =>
           \A q \in HoledFaces(adj_list) :
               /\ ReportedOnce(q)
               /\ \A f \in BoundedFaces(adj_list) :
                      (/\ SeqToSet(f) \subseteq Enclosed(adj_list, q)
                       /\ Abs(Area2(f)) > 2 * GEOMETRIC_TOLERANCE * One) => ReportedOnce(f)
    /\ (pc = "done" /\ segs = SquareWithHole) =>
           BagOf(perimeters) = BagOf(<<8 * One, 4 * One>>)

\* a run that ends with the perimeter of a cycle round a separate component
\* and the perimeter of a face of that component
C16_Witness ==
    /\ pc = "done"
    /\ ProperEmbedding(adj_list)
    /\ \E q \in HoledFaces(adj_list) :
           /\ ReportedOnce(q)
           /\ \E f \in BoundedFaces(adj_list) :
                  /\ SeqToSet(f) \subseteq Enclosed(adj_list, q)
                  /\ ReportedOnce(f)
                  /\ CycleLength(adj_list, f) < CycleLength(adj_list, q)

\* ------------------------------------------------------------------------
\* C18
\* ------------------------------------------------------------------------

\* the Points the registry holds
RegistryPoints == {point_cache[k] : k \in DOMAIN point_cache}

\* the registry's Point for a pair of raw coordinates
CanonicalOf(coords) == point_cache[RoundedKey(coords[1], coords[2])]

\* find_all_vertices_and_segment_map has returned
Returned == pc \in {"build", "trace", "done"}

\* C18: after find_all_vertices_and_segment_map every input segment has a
\* point set that contains the canonical Points of its two endpoints, every
\* point of every point set is in the vertex set, and the vertex set is
\* exactly the set of Points the registry holds.
C18_MapAndVerticesComeFromRegistry ==
    Returned =>
        /\ \A k \in 1..Len(segs) :
               /\ segs[k] \in DOMAIN segment_to_points_map
               /\ RoundedKey(segs[k][1][1], segs[k][1][2]) \in DOMAIN point_cache
               /\ RoundedKey(segs[k][2][1], segs[k][2][2]) \in DOMAIN point_cache
               /\ CanonicalOf(segs[k][1]) \in segment_to_points_map[segs[k]]
               /\ CanonicalOf(segs[k][2]) \in segment_to_points_map[segs[k]]
        /\ \A s \in DOMAIN segment_to_points_map : segment_to_points_map[s] \subseteq all_vertices
        /\ all_vertices = RegistryPoints

\* the call has returned a segment with an intersection point in its point
\* set, and an endpoint whose canonical Point is that of an earlier, slightly
\* different pair of coordinates
C18_Witness ==
    /\ Returned
    /\ \E s \in DOMAIN segment_to_points_map : Cardinality(segment_to_points_map[s]) >= 3
    /\ \E k \in 1..Len(segs) : CanonicalOf(segs[k][1]) # Point(segs[k][1][1], segs[k][1][2])

\* ------------------------------------------------------------------------
\* C19
\* ------------------------------------------------------------------------

\* the two ends of the raw segment are equal under the rounding rule
Degenerate(s) == RoundedKey(s[1][1], s[1][2]) = RoundedKey(s[2][1], s[2][2])

\* phase 1 has dealt with the k-th input segment
Registered(k) == pc # "endpoints" \/ k < i

\* the Points that the pairs of non-degenerate input segments with s in them
\* give s: the registry's Points of the intersections found
PointsFromPairs(s) ==
    LET ends(r) == <<CanonicalOf(r[1]), CanonicalOf(r[2])>>
        hits == {IF a < b THEN get_segment_intersection(ends(segs[a]), ends(segs[b]))
                 ELSE get_segment_intersection(ends(segs[b]), ends(segs[a])) :
                     <<a, b>> \in {e \in (1..Len(segs)) \X (1..Len(segs)) :
                                      /\ e[1] # e[2]
                                      /\ segs[e[1]] = s
                                      /\ ~Degenerate(segs[e[2]])}}
    IN  {point_cache[RoundedKey(h.x, h.y)] : h \in hits \ {None}}

\* a degenerate segment has a point set of one point, is not among the
\* segments given to the intersection finder, adds nothing to the point set of
\* another segment, and its point is a vertex of the vertex set and of the graph
C19_DegenerateIsRecordedAlone ==
    \A k \in 1..Len(segs) :
        (Degenerate(segs[k]) /\ Registered(k)) =>
            /\ segment_to_points_map[segs[k]] = {CanonicalOf(segs[k][1])}
            /\ \A c \in 1..Len(canonical_segments) :
                   canonical_segments[c].original # segs[k]
            /\ CanonicalOf(segs[k][1]) \in all_vertices
            /\ Returned =>
                   /\ CanonicalOf(segs[k][1]) \in DOMAIN adj_list
                   /\ \A l \in 1..Len(segs) :
                          ~Degenerate(segs[l]) =>
                              segment_to_points_map[segs[l]] =
                                  {CanonicalOf(segs[l][1]), CanonicalOf(segs[l][2])}
                                      \cup PointsFromPairs(segs[l])

\* the step of build_graph for a degenerate segment leaves the graph as it is
C19_DegenerateAddsNoEdge ==
    (/\ pc = "build"
     /\ i <= Len(MapKeys(segs))
     /\ Degenerate(MapKeys(segs)[i])) => adj_list' = adj_list

\* C19: a segment whose two endpoints are equal under the rounding rule is
\* recorded with a singleton point set, is never given to the intersection
\* finder and so adds no point to another segment's point set, contributes no
\* edge in build_graph, and its point is a vertex of the vertex set and of
\* the graph.
C19_DegenerateSegmentIsHarmless ==
    []C19_DegenerateIsRecordedAlone /\ [][C19_DegenerateAddsNoEdge]_vars

\* the graph is built from an input with a degenerate segment whose ends
\* differ, lying on another segment that has no point from it: its point is a
\* vertex without an edge
C19_Witness ==
    /\ pc = "trace"
    /\ \E k, l \in 1..Len(segs) :
           /\ Degenerate(segs[k])
           /\ segs[k][1] # segs[k][2]
           /\ ~Degenerate(segs[l])
           /\ OnSegment(CanonicalOf(segs[l][1]), CanonicalOf(segs[l][2]),
                        Point(round(segs[k][1][1]) * (One \div Pow10(POINT_PRECISION_DECIMALS)),
                              round(segs[k][1][2]) * (One \div Pow10(POINT_PRECISION_DECIMALS))))
           /\ CanonicalOf(segs[k][1]) \notin segment_to_points_map[segs[l]]
           /\ adj_list[CanonicalOf(segs[k][1])] = EmptyMap

\* ------------------------------------------------------------------------
\* C20
\* ------------------------------------------------------------------------

\* the entries of the registry that the k-th call returned, as they are now:
\* those of the registry in use if it is that object
RegistryOf(k) ==
    IF calls[k].point_cache = result THEN point_cache ELSE args[calls[k].point_cache]

\* the end points of the segments of a batch, in the order of their registration
EndsOf(batch) == [n \in 1..(2 * Len(batch)) |-> batch[(n + 1) \div 2][2 - (n % 2)]]

\* the Point of the first end point of the batch with the rounded key of e
FirstInBatch(batch, e) ==
    LET ends == EndsOf(batch)
        n == CHOOSE m \in 1..Len(ends) :
                 /\ RoundedKey(ends[m][1], ends[m][2]) = RoundedKey(e[1], e[2])
                 /\ \A l \in 1..(m - 1) :
                        RoundedKey(ends[l][1], ends[l][2]) # RoundedKey(e[1], e[2])
    IN  Point(ends[n][1], ends[n][2])

\* what a call returned is a matter of its batch alone: calls with the same
\* batch returned the same map, vertex set and registry entries, the
\* registry holds the Points of the returned vertex set and no other, and an
\* end point's Point is that of the first end point of the batch with its key
C20_ResultOfBatchAlone ==
    /\ \A a, b \in 1..Len(calls) :
           calls[a].batch = calls[b].batch =>
               /\ calls[a].segment_to_points_map = calls[b].segment_to_points_map
               /\ calls[a].all_vertices = calls[b].all_vertices
               /\ RegistryOf(a) = RegistryOf(b)
    /\ \A a \in 1..Len(calls) :
           /\ {RegistryOf(a)[key] : key \in DOMAIN RegistryOf(a)} = calls[a].all_vertices
           /\ \A n \in 1..Len(calls[a].batch) : \A e \in {1, 2} :
                  LET end == calls[a].batch[n][e]
                  IN  /\ RoundedKey(end[1], end[2]) \in DOMAIN RegistryOf(a)
                      /\ RegistryOf(a)[RoundedKey(end[1], end[2])] =
                             FirstInBatch(calls[a].batch, end)

\* no step changes what an earlier call returned
C20_ReturnedStaysAsItWas ==
    \A k \in 1..Len(calls) :
        /\ calls'[k] = calls[k]
        /\ RegistryOf(k)' = RegistryOf(k)

\* C20: every call of find_all_vertices_and_segment_map works on a registry
\* made inside the call: the map, vertex set and registry returned for a batch
\* are the same whatever batches came before, and a later batch never changes
\* the registry, vertex set or map an earlier call returned.
C20_BatchesDoNotContaminate ==
    []C20_ResultOfBatchAlone /\ [][C20_ReturnedStaysAsItWas]_vars

\* three calls have returned, the first and the third with one batch, the
\* second with a batch that has other Points under keys of the first
C20_Witness ==
    /\ Len(calls) = MaxBatches
    /\ calls[1].batch = calls[MaxBatches].batch
    /\ calls[2].batch # calls[1].batch
    /\ \E key \in DOMAIN RegistryOf(1) \cap DOMAIN RegistryOf(2) :
           RegistryOf(1)[key] # RegistryOf(2)[key]

\* ------------------------------------------------------------------------
\* C21
\* ------------------------------------------------------------------------

\* the raw segment is not two coordinate pairs, or has a coordinate that is
\* not a finite number
Malformed(raw_segment) == Len(raw_segment) # 2 \/ HasNaN(raw_segment)

\* the Points the call holds: in its registry, its vertex set and its map
PointsHeld ==
    RegistryPoints \cup all_vertices
        \cup UNION {segment_to_points_map[s] : s \in DOMAIN segment_to_points_map}

\* C21: malformed input makes find_all_vertices_and_segment_map fail at the
\* boundary: once the loop has come to a malformed segment the call has
\* raised, with no Point registered from that segment or a later one, and the
\* call never holds or returns a Point with a coordinate that is not finite.
C21_MalformedInputFailsAtBoundary ==
    /\ \A k \in 1..Len(segs) : (Malformed(segs[k]) /\ Registered(k)) => pc = "raised"
    /\ pc = "raised" =>
           /\ result = ValueError
           /\ \A key \in DOMAIN point_cache :
                  \E k \in 1..(i - 1) : \E e \in {1, 2} :
                      key = RoundedKey(segs[k][e][1], segs[k][e][2])
    /\ \A p \in PointsHeld : p.x # NaN /\ p.y # NaN

\* ------------------------------------------------------------------------
\* C22
\* ------------------------------------------------------------------------

\* the points the three strategies of _get_reference_point can give for a
\* segment: the registry's Point for the first endpoint, a Point of the set
\* equal to it, any Point of the set
ReferencesOfAnyStrategy(raw_seg_tuple) ==
    LET rounded_key == RoundedKey(raw_seg_tuple[1][1], raw_seg_tuple[1][2])
    IN  (IF rounded_key \in DOMAIN point_cache THEN {point_cache[rounded_key]} ELSE {})
            \cup segment_to_points_map[raw_seg_tuple]

\* the edges build_graph makes for the segment when it sorts by ref_point
EdgesWith(raw_seg_tuple, ref_point) ==
    UndirectedEdges(
        LinkConsecutive([vertex \in all_vertices |-> EmptyMap],
                        SortedPoints(segment_to_points_map[raw_seg_tuple], ref_point), 1))

\* C22: the edges build_graph has made for a segment are those it makes with
\* any reference that one of the three strategies can give: the registry's
\* Point of the first endpoint, a Point of the set equal to it, or any Point
\* of the set.
C22_EdgesSameForAnyReference ==
    (pc = "build" /\ i = 2) =>
        \A ref_point \in ReferencesOfAnyStrategy(segs[1]) :
            EdgesWith(segs[1], ref_point) = UndirectedEdges(adj_list)

\* ------------------------------------------------------------------------
\* C23
\* ------------------------------------------------------------------------

\* the half turn in which the counter-clockwise angle from back to v lies:
\* 0 for [0, pi), 1 for [pi, 2*pi)
HalfTurn(back, v) ==
    IF Cross(Point(0, 0), back, v) > 0
           \/ (Cross(Point(0, 0), back, v) = 0 /\ back.x * v.x + back.y * v.y > 0)
    THEN 0 ELSE 1

\* the counter-clockwise angle from back to a is less than that from back to b
SmallerTurn(back, a, b) ==
    \/ HalfTurn(back, a) < HalfTurn(back, b)
    \/ HalfTurn(back, a) = HalfTurn(back, b) /\ Cross(Point(0, 0), a, b) > 0

\* the neighbours of the k-th vertex of the path that the step from it may
\* take: the vertex before it only when it is the only neighbour
Eligible(path, k) ==
    LET neighbors == DOMAIN adj_list[path[k]]
    IN  {c \in neighbors : c # path[k - 1] \/ Cardinality(neighbors) = 1}

\* the step from the k-th vertex of the path goes to an eligible neighbour
\* of least turn angle, the first of them in (x, y) order
RightmostStep(path, k) ==
    LET back == Point(path[k - 1].x - path[k].x, path[k - 1].y - path[k].y)
        out(c) == Point(c.x - path[k].x, c.y - path[k].y)
        next == path[k + 1]
    IN  /\ next \in Eligible(path, k)
        /\ \A d \in Eligible(path, k) \ {next} :
               \/ SmallerTurn(back, out(next), out(d))
               \/ ~SmallerTurn(back, out(d), out(next)) /\ LexLess(next, d)

\* C23: every step of a trace goes to the neighbour of the current vertex of
\* least turn angle, the previous vertex being a candidate only when it is
\* the only neighbour and the first in (x, y) order winning among equal turn
\* angles; the path starts with the start edge and the length is the sum of
\* the weights of the edges of the path.
C23_TraceTakesSharpestRightTurn ==
    last_trace.outcome \in {"closed", "dead_end", "too_long"} =>
        LET path == last_trace.path
        IN  /\ Len(path) >= 2
            /\ <<path[1], path[2]>> = last_trace.start_edge
            /\ \A k \in 2..(Len(path) - 1) : RightmostStep(path, k)
            /\ last_trace.perimeter = WalkWeightFrom(adj_list, path, 1)

\* a trace has taken the sharper of two turns at one vertex, the first of two
\* neighbours of equal turn angle at another, and has turned back at a third
C23_Witness ==
    /\ last_trace.outcome \in {"closed", "too_long"}
    /\ \E k \in 2..(Len(last_trace.path) - 1) :
           /\ last_trace.path[k + 1] = last_trace.path[k - 1]
    /\ \E k \in 2..(Len(last_trace.path) - 1) :
           LET path == last_trace.path
               back == Point(path[k - 1].x - path[k].x, path[k - 1].y - path[k].y)
               out(c) == Point(c.x - path[k].x, c.y - path[k].y)
           IN  \E d \in Eligible(path, k) \ {path[k + 1]} :
                   SmallerTurn(back, out(path[k + 1]), out(d))
    /\ \E k \in 2..(Len(last_trace.path) - 1) :
           LET path == last_trace.path
               back == Point(path[k - 1].x - path[k].x, path[k - 1].y - path[k].y)
               out(c) == Point(c.x - path[k].x, c.y - path[k].y)
           IN  \E d \in Eligible(path, k) \ {path[k + 1]} :
                   /\ ~SmallerTurn(back, out(path[k + 1]), out(d))
                   /\ ~SmallerTurn(back, out(d), out(path[k + 1]))

\* ------------------------------------------------------------------------
\* C24
\* ------------------------------------------------------------------------

\* the number of edges the last trace went along
EdgesTraversed == Len(last_trace.path) - 1

\* the last trace went along at most |V| + 1 edges and ended in one of three
\* ways: closed, at its first arrival at the start vertex, be it on the last
\* edge allowed; at a dead end, a vertex other than the start with no
\* neighbour; or too long, after |V| + 1 edges without arriving at the start
C24_TraceEndsInOneOfThreeWays ==
    last_trace.verdict \notin {"none", "skipped"} =>
        LET path == last_trace.path
            last == path[Len(path)]
            bound == Cardinality(DOMAIN adj_list) + 1
        IN  /\ 1 <= EdgesTraversed /\ EdgesTraversed <= bound
            /\ last_trace.outcome \in {"closed", "dead_end", "too_long"}
            /\ \A k \in 2..(Len(path) - 1) : path[k] # path[1]
            /\ last_trace.outcome = "closed" <=> last = path[1]
            /\ last_trace.outcome = "dead_end" <=>
                   (last # path[1] /\ DOMAIN adj_list[last] = {})
            /\ last_trace.outcome = "too_long" <=>
                   (last # path[1] /\ DOMAIN adj_list[last] # {} /\ EdgesTraversed = bound)

\* every step of find_face_perimeters takes the loops on, to the next
\* neighbour or the next start vertex, or ends them; a trace is made for the
\* directed edge the loops are at, and for no edge that is consumed
C24_LoopsAdvance ==
    pc = "trace" =>
        /\ \/ pc' = "done" /\ i > Len(order)
           \/ i' = i + 1 /\ i <= Len(order)
           \/ i' = i /\ j' = j + 1
        /\ last_trace' # last_trace =>
               /\ last_trace'.start_edge =
                      <<order[i], SortedByXY(DOMAIN adj_list[order[i]])[j]>>
               /\ last_trace'.verdict = "skipped" <=>
                      last_trace'.start_edge \in visited_directed_edges

\* the start vertices are the vertices of the graph, each once
C24_EachVertexOnce ==
    /\ SeqToSet(order) = DOMAIN adj_list
    /\ Len(order) = Cardinality(DOMAIN adj_list)

\* C24: every trace goes along at most |V| + 1 edges and ends closed, at a
\* dead end or too long, closed also when it arrives at the start on the
\* last edge allowed; find_face_perimeters comes to every directed edge of the
\* graph at most once and returns.
C24_TracesAndLoopsTerminate ==
    /\ [](C24_TraceEndsInOneOfThreeWays /\ C24_EachVertexOnce)
    /\ [][C24_LoopsAdvance]_vars
    /\ <>(pc = "done")

\* a trace has closed on the last edge it may go along
C24_Witness ==
    /\ last_trace.outcome = "closed"
    /\ EdgesTraversed = Cardinality(DOMAIN adj_list) + 1

\* ------------------------------------------------------------------------
\* C25
\* ------------------------------------------------------------------------

\* every edge of the graph is there in both directions, with one weight
SymmetricGraph(graph) ==
    \A u \in DOMAIN graph : \A v \in DOMAIN graph[u] :
        /\ v \in DOMAIN graph
        /\ u \in DOMAIN graph[v]
        /\ graph[v][u] = graph[u][v]

\* a graph as build_graph makes it of a planar arrangement
WellFormed(graph) == SymmetricGraph(graph) /\ ProperEmbedding(graph)

\* the vertices of the path are all different
AllDifferent(path) ==
    \A a, b \in 1..Len(path) : a # b => path[a] # path[b]

\* C25 as stated: on a symmetric planar graph no trace ends as too long.
C25_NoTraceIsTooLong ==
    WellFormed(adj_list) => last_trace.outcome # "too_long"

\* C25: on a symmetric planar graph a trace ends as too long only when it has
\* come to some vertex twice, which the boundary of no simple face does; that
\* happens, on the walk around a tree or around a face with an antenna.
C25_TooLongOnlyAfterRepeatedVertex ==
    (WellFormed(adj_list) /\ last_trace.outcome = "too_long") =>
        /\ ~AllDifferent(last_trace.path)
        /\ EdgesTraversed = Cardinality(DOMAIN adj_list) + 1

\* a trace on a symmetric planar graph has ended as too long
C25_Witness ==
    /\ WellFormed(adj_list)
    /\ last_trace.outcome = "too_long"

\* ------------------------------------------------------------------------
\* C26
\* ------------------------------------------------------------------------

\* the vertices of a closed path, without the start vertex come back to
NodesOf(path) == SubSeq(path, 1, Len(path) - 1)

\* the trace failed, or closed on a path that is to be rejected, given the
\* faces found before it
FailedOrRejected(tr, found) ==
    \/ tr.outcome \in {"dead_end", "too_long"}
    \/ /\ tr.outcome = "closed"
       /\ \/ Cardinality(SeqToSet(NodesOf(tr.path))) < 3
          \/ ~AllDifferent(NodesOf(tr.path))
          \/ shoelace_area(NodesOf(tr.path)) >= 0
          \/ SeqToSet(NodesOf(tr.path)) \in found

\* a step that makes such a trace leaves the results as they were
C26_RejectedTraceChangesNothing ==
    (last_trace' # last_trace /\ FailedOrRejected(last_trace', found_faces)) =>
        UNCHANGED <<perimeters, faces, found_faces, visited_directed_edges>>

\* C26: a trace that ends at a dead end or too long, or closes on fewer than
\* three vertices, on a repeated vertex, with a signed area that is not
\* negative or on a vertex set already accepted, leaves the perimeter list, the
\* set of found faces and the set of consumed edges as they were before it.
C26_FailureContributesNothing == [][C26_RejectedTraceChangesNothing]_vars

\* after a face was accepted, a trace has closed on its vertices again and
\* was rejected
C26_Witness ==
    /\ perimeters # <<>>
    /\ last_trace.outcome = "closed"
    /\ last_trace.verdict # "accepted"
    /\ SeqToSet(NodesOf(last_trace.path)) \in found_faces

\* ------------------------------------------------------------------------
\* C27
\* ------------------------------------------------------------------------

\* the directed edge e is gone along by the path, in that direction
GoesAlong(path, e) ==
    \E n \in 1..(Len(path) - 1) : e = <<path[n], path[n + 1]>>

\* the consumed edges are the directed edges along the accepted faces
C27_ConsumedAreEdgesOfAcceptedFaces ==
    /\ \A k \in 1..Len(faces) : \A n \in 1..(Len(faces[k]) - 1) :
           <<faces[k][n], faces[k][n + 1]>> \in visited_directed_edges
    /\ \A e \in visited_directed_edges : \E k \in 1..Len(faces) : GoesAlong(faces[k], e)

\* a consumed edge starts no trace, and accepting a face consumes none of
\* its edges in the reverse direction
C27_ConsumedEdgeStartsNoTrace ==
    /\ (last_trace' # last_trace /\ last_trace'.start_edge \in visited_directed_edges) =>
           /\ last_trace'.outcome = "none"
           /\ UNCHANGED <<perimeters, faces, found_faces, visited_directed_edges>>
    /\ Len(faces') > Len(faces) =>
           \A n \in 1..(Len(last_trace'.path) - 1) :
               LET back == <<last_trace'.path[n + 1], last_trace'.path[n]>>
               IN  back \in visited_directed_edges' <=> back \in visited_directed_edges

\* C27: the directed edges along an accepted face are consumed from then on
\* and start no later trace; nothing else is consumed, so that the edge in
\* the reverse direction is left for the face on the other side.
C27_AcceptedFaceConsumesItsEdges ==
    /\ []C27_ConsumedAreEdgesOfAcceptedFaces
    /\ [][C27_ConsumedEdgeStartsNoTrace]_vars

\* two faces are accepted that go along one edge in opposite directions, and
\* a start edge was passed over because it was consumed
C27_Witness ==
    /\ Len(faces) >= 2
    /\ \E e \in visited_directed_edges : <<e[2], e[1]>> \in visited_directed_edges
    /\ last_trace.verdict = "skipped"

\* ------------------------------------------------------------------------
\* C28
\* ------------------------------------------------------------------------

\* the neighbours the trace may go to from path[k], having come from
\* path[k - 1]
MayGoTo(graph, path, k) ==
    {c \in DOMAIN graph[path[k]] :
        c # path[k - 1] \/ Cardinality(DOMAIN graph[path[k]]) = 1}

\* C28: on a symmetric graph no trace ends at a dead end: at every vertex it
\* comes to there is a neighbour it may go to, at a vertex of degree 1 it
\* goes back to where it came from, and every edge it goes along has a weight.
C28_NoDeadEndOnSymmetricGraph ==
    (SymmetricGraph(adj_list) /\ last_trace.outcome # "none") =>
        LET path == last_trace.path
        IN  /\ last_trace.outcome # "dead_end"
            /\ \A k \in 2..Len(path) :
                   /\ path[k] \in DOMAIN adj_list
                   /\ path[k] \in DOMAIN adj_list[path[k - 1]]
                   /\ MayGoTo(adj_list, path, k) # {}
            /\ \A k \in 2..(Len(path) - 1) :
                   /\ path[k + 1] \in MayGoTo(adj_list, path, k)
                   /\ Cardinality(DOMAIN adj_list[path[k]]) = 1 => path[k + 1] = path[k - 1]

\* a trace on a symmetric graph has come to a vertex of degree 1 and turned
\* back
C28_Witness ==
    /\ SymmetricGraph(adj_list)
    /\ last_trace.outcome # "none"
    /\ \E k \in 2..(Len(last_trace.path) - 1) :
           /\ Cardinality(DOMAIN adj_list[last_trace.path[k]]) = 1
           /\ last_trace.path[k + 1] = last_trace.path[k - 1]

\* ------------------------------------------------------------------------
\* C29
\* ------------------------------------------------------------------------

\* a step that accepts a face accepts one none of whose directed edges is
\* consumed
C29_AcceptedEdgesAreFresh ==
    Len(faces') > Len(faces) =>
        \A n \in 1..(Len(last_trace'.path) - 1) :
            <<last_trace'.path[n], last_trace'.path[n + 1]>> \notin visited_directed_edges

UnequalRounded(p, q) == round(p.x) # round(q.x) \/ round(p.y) # round(q.y)

\* the points of S that can be come to from those of R along edges between
\* points of S
RECURSIVE ReachedWithin(_, _, _)
ReachedWithin(graph, S, R) ==
    LET more == {v \in S \ R : \E u \in R : v \in DOMAIN graph[u]}
    IN  IF more = {} THEN R ELSE ReachedWithin(graph, S, R \cup more)

\* p and q are the first and the last point of S along the raw segment
FirstAndLast(raw, S, p, q) ==
    \A r \in S : Along(raw, p) <= Along(raw, r) /\ Along(raw, r) <= Along(raw, q)

\* C30: once the graph is built, no two consecutive points of a segment that
\* are unequal under the rounding rule are without an edge because of the
\* tolerance test (if they have no edge, they are farther apart than the
\* tolerance), and the first and the last point of every segment of two or
\* more points are joined by a path through the points of the segment.
C30_ToleranceDropsNoEdge ==
    pc \in {"trace", "done"} =>
        \A raw \in DOMAIN segment_to_points_map :
            LET S == segment_to_points_map[raw]
            IN  \A p, q \in S :
                    /\ (UnequalRounded(p, q) /\ Consecutive(raw, S, p, q)) =>
                           (q \in DOMAIN adj_list[p] \/ euclidean_dist(p, q) > GEOMETRIC_TOLERANCE)
                    /\ (Cardinality(S) >= 2 /\ FirstAndLast(raw, S, p, q)) =>
                           q \in ReachedWithin(adj_list, S, {p})

====
